---- MODULE Spec2Model ----
(***************************************************************************)
(* The AT protocol engine of huawei-modem: HuaweiModemFuture::poll         *)
(* (src/src/future.rs), the submitting side HuaweiModem::send_raw and      *)
(* ModemResponseFuture::poll (src/src/lib.rs), and the channels between    *)
(* them.  The modem and the users of the library are the environment.      *)
(* The pure functions of the library (the SMS PDU codec of src/src/pdu.rs, *)
(* the septet codec and the message splitter of                            *)
(* src/src/gsm_encoding/mod.rs, the value parser of src/src/parse.rs) are  *)
(* operators, applied by the actions of specifications of their own.       *)
(***************************************************************************)
EXTENDS Integers, Sequences, FiniteSets, TLC

\* Number of send_raw calls made by the users of the handle.
MaxReqs == 2
\* Number of response lines the modem emits.
MaxLines == 4
\* Number of lines the decoder yields at once.
MaxBatch == 2
\* Number of things the users drop early: response futures, the URC receiver, the handle.
MaxDrops == 1

----------------------------------------------------------------------------
(* at.rs: AtResponse.  One value is one line of text.  The field n is the  *)
(* position of the line in the modem's output; it stands for the payload   *)
(* of the line (the AtValue of an information response, the text of an     *)
(* unknown line) and tells two lines of the same shape apart.              *)

InformationResponse(param, n) == [kind |-> "InformationResponse", name |-> param, n |-> n]
ResultCode(code, n) == [kind |-> "ResultCode", name |-> code, n |-> n]
Unknown(n) == [kind |-> "Unknown", name |-> "text", n |-> n]

is_result_code(x) == x.kind = "ResultCode"

\* AtResultCode::is_ok, as used by AtResponsePacket::assert_ok
is_ok(status) == status.name = "Ok"

\* The shapes of line the modem emits in this model.
LineShapes ==
    { <<"InformationResponse", "+CREG">>, <<"InformationResponse", "+CMTI">>,
      <<"Unknown", "text">>, <<"ResultCode", "Ok">>, <<"ResultCode", "Error">> }

MkLine(shape, n) == [kind |-> shape[1], name |-> shape[2], n |-> n]

(* at.rs: AtCommand.  long says that the encoded command alone reaches the *)
(* write buffer's backpressure boundary of the framed stream.              *)
Read(param) == [shape |-> "Read", name |-> param, number |-> <<>>, expected |-> <<>>, long |-> FALSE]
Basic(command, number) == [shape |-> "Basic", name |-> command, number |-> number, expected |-> <<>>, long |-> FALSE]
Text(text, exp, long) == [shape |-> "Text", name |-> text, number |-> <<>>, expected |-> exp, long |-> long]

\* AtCommand::expected
expected(cmd) == IF cmd.shape = "Text" THEN cmd.expected ELSE <<cmd.name>>

\* The commands the users submit in this model.
Commands == { Read("+CREG"), Text("pdu", <<>>, TRUE) }

\* Vec::contains
Contains(v, p) == \E i \in DOMAIN v : v[i] = p

Ids == 0 .. MaxReqs
\* The notifier of the ATE0 request the engine makes for itself.
EchoId == 0

----------------------------------------------------------------------------
VARIABLES
    engine,     \* the engine task: "running", or what poll returned for good: "Ready", "Err"
    last,       \* what the last fallible call of poll came to: "ok", or "eof" (the stream
                \* ended), "closed" (the request channel ended), "io" (the stream failed),
                \* "parse" (the codec could not parse what the stream read),
                \* "urc" (the URC channel is closed)
    fresh,      \* HuaweiModemFuture.fresh
    cur,        \* HuaweiModemFuture.cur: <<>> is None, <<state>> is Some(state)
    requests,   \* HuaweiModemFuture.requests
    rx,         \* the requests in the unbounded channel from send_raw to the engine
    tx,         \* the HuaweiModem handle (the only sender of the channel) is alive
    urcrx,      \* the URC receiver: "open" (in the HuaweiModem, or taken from it), "dropped"
    emitted,    \* how many lines the modem has emitted and the engine has read
    written,    \* the notifier ids of the commands the stream's sink has accepted, in order
    wfull,      \* the unflushed write buffer is at or over the backpressure boundary
    notif,      \* per one-shot sender: "none", "live", "sent", "failed", "dropped", "senderr"
    got,        \* per one-shot receiver: the status of the packet it received, "" before
    rxAlive,    \* per one-shot receiver: the ModemResponseFuture has not been dropped
    urcn,       \* the position n of the line last put on the URC channel, 0 before the first
    out         \* what the last iteration of the read loop did in the poll under way: the
                \* batch it read, the request that was active, the lines then held for it,
                \* its sends in order (items on the URC channel, the packet on a notifier)
                \* and the packet; empty once poll has returned

VARIABLES
    call,       \* the library function a caller is about to apply, "none" in the engine's
                \* specification, "done" after the last one
    arg,        \* the caller's input
    ret         \* what the functions applied so far returned, in order

engineVars == << engine, last, fresh, cur, requests, rx, tx, urcrx, emitted,
                 written, wfull, notif, got, rxAlive, urcn, out >>

callVars == << call, arg, ret >>

vars == << engineVars, callVars >>

envVars == << tx, urcrx, emitted, rxAlive >>

NoOut == [batch |-> <<>>, active |-> <<>>, expected |-> <<>>, raw |-> <<>>, sends |-> <<>>, packet |-> <<>>]

EngineInit ==
    /\ engine = "running"
    /\ last = "ok"
    /\ fresh = TRUE
    /\ cur = <<>>
    /\ requests = <<>>
    /\ rx = <<>>
    /\ tx = TRUE
    /\ urcrx = "open"
    /\ emitted = 0
    /\ written = <<>>
    /\ wfull = FALSE
    /\ notif = [i \in Ids |-> "none"]
    /\ got = [i \in Ids |-> ""]
    /\ rxAlive = [i \in Ids |-> FALSE]
    /\ urcn = 0
    /\ out = NoOut

Init ==
    /\ EngineInit
    /\ call = "none" /\ arg = <<>> /\ ret = <<>>

----------------------------------------------------------------------------
\* The notifiers held in a sequence of ModemRequest
NotifsOf(reqs) == { reqs[i].notif : i \in DOMAIN reqs }

\* The one-shot senders the engine task and the channel own.
Held == NotifsOf(cur) \cup NotifsOf(requests) \cup NotifsOf(rx)

(* poll returns Ready or Err: the task is over and the future is dropped,  *)
(* with it the active request, the queue and the channel's receiver (whose *)
(* queued messages are dropped too).  A one-shot sender dropped unsent     *)
(* cancels its receiver.                                                   *)
Exit(res, unsent) ==
    /\ engine' = res
    /\ cur' = <<>>
    /\ requests' = <<>>
    /\ rx' = <<>>
    /\ notif' = [i \in Ids |-> IF i \in unsent THEN "dropped" ELSE notif[i]]

\* PollBegin submitting ATE0 through the request channel, behind what is already there.
PollBeginQueued ==
    /\ engine = "running" /\ fresh
    /\ fresh' = FALSE
    /\ rx' = Append(rx, [command |-> Basic("E", <<0>>), expected |-> <<>>, notif |-> EchoId])
    /\ notif' = [notif EXCEPT ![EchoId] = "live"]
    /\ UNCHANGED << engine, last, cur, requests, written, wfull, got, urcn, out >>
    /\ UNCHANGED envVars
    /\ UNCHANGED callVars

\* future.rs 51-61: the first poll queues ATE0 with a notifier whose receiver is dropped
PollBegin ==
    /\ engine = "running" /\ fresh
    /\ fresh' = FALSE
    /\ requests' = <<[command |-> Basic("E", <<0>>), expected |-> <<>>, notif |-> EchoId]>> \o requests
    /\ notif' = [notif EXCEPT ![EchoId] = "live"]
    /\ UNCHANGED << engine, last, cur, rx, written, wfull, got, urcn, out >>
    /\ UNCHANGED envVars
    /\ UNCHANGED callVars

(* future.rs 77-94: the lines accumulated for a request are split into the *)
(* packet's responses, its status and the items sent on the URC channel.   *)
(* open: the URC receiver exists; a send to a dropped receiver fails and   *)
(* the ? operator leaves poll at once.                                     *)
RECURSIVE Route(_, _, _, _)
Route(responses, exp, open, acc) ==
    IF responses = <<>> \/ acc.err THEN acc
    ELSE LET resp == Head(responses) IN
         Route(Tail(responses), exp, open,
            IF resp.kind = "InformationResponse"
            THEN IF Contains(exp, resp.name)
                 THEN [acc EXCEPT !.resps = Append(@, resp)]
                 ELSE IF open THEN [acc EXCEPT !.urcs = Append(@, resp)]
                              ELSE [acc EXCEPT !.err = TRUE]
            ELSE IF resp.kind = "ResultCode"
                 THEN [acc EXCEPT !.status = <<resp>>]
                 ELSE [acc EXCEPT !.resps = Append(@, resp)])

\* Partition stopping at the first result code.
PartitionUpToStatus(responses, exp, open) ==
    LET first == CHOOSE k \in DOMAIN responses :
                    /\ is_result_code(responses[k])
                    /\ \A l \in 1 .. k - 1 : ~is_result_code(responses[l])
    IN Route(SubSeq(responses, 1, first), exp, open,
             [resps |-> <<>>, status |-> <<>>, urcs |-> <<>>, err |-> FALSE])

\* Partition with the failure of a send on the URC channel ignored.
PartitionUrcIgnored(responses, exp, open) ==
    Route(responses, exp, TRUE, [resps |-> <<>>, status |-> <<>>, urcs |-> <<>>, err |-> FALSE])

\* Partition with the result codes kept among the packet's responses.
PartitionStatusKept(responses, exp, open) ==
    LET p == Route(responses, exp, open, [resps |-> <<>>, status |-> <<>>, urcs |-> <<>>, err |-> FALSE])
    IN [p EXCEPT !.resps = SelectSeq(responses, LAMBDA x :
                                x.kind # "InformationResponse" \/ Contains(exp, x.name))]

\* Partition with the test against the expected set always succeeding.
PartitionKeepAll(responses, exp, open) ==
    Route(responses, [i \in DOMAIN responses |-> responses[i].name], open,
          [resps |-> <<>>, status |-> <<>>, urcs |-> <<>>, err |-> FALSE])

Partition(responses, exp, open) ==
    Route(responses, exp, open, [resps |-> <<>>, status |-> <<>>, urcs |-> <<>>, err |-> FALSE])

\* UrcSends going through the items from the last to the first.
UrcSendsReversed(items) ==
    [i \in DOMAIN items |-> [ev |-> "urc", x |-> items[Len(items) + 1 - i].n]]

UrcSends(items) == [i \in DOMAIN items |-> [ev |-> "urc", x |-> items[i].n]]

Done(r, state, sends, packet) ==
    [batch |-> r, active |-> <<state.notif>>, expected |-> state.expected,
     raw |-> state.responses, sends |-> sends, packet |-> packet]

\* Complete with the packet handed over before the URC items are sent.
CompletePacketFirst(r) ==
    LET state == [cur[1] EXCEPT !.responses = @ \o r]
        p == Partition(state.responses, state.expected, urcrx # "dropped")
        pkt == [responses |-> p.resps, status |-> p.status[1]]
    IN /\ cur' = <<>>
       /\ last' = "ok"
       /\ notif' = [notif EXCEPT ![state.notif] = IF rxAlive[state.notif] THEN "sent" ELSE "failed"]
       /\ got' = [got EXCEPT ![state.notif] = IF rxAlive[state.notif] THEN pkt.status.name ELSE @]
       /\ out' = Done(r, state, <<[ev |-> "packet", x |-> state.notif]>> \o UrcSends(p.urcs), <<pkt>>)
       /\ UNCHANGED << engine, requests, rx >>

\* future.rs 72-99: a batch with a result code completes the active request
Complete(r) ==
    LET state == [cur[1] EXCEPT !.responses = @ \o r]
        p == Partition(state.responses, state.expected, urcrx # "dropped")
        pkt == [responses |-> p.resps, status |-> p.status[1]]
    IN IF p.err
       THEN /\ Exit("Err", Held)
            /\ last' = "urc"
            /\ out' = Done(r, state, <<>>, <<>>)
            /\ UNCHANGED got
       ELSE /\ cur' = <<>>
            /\ last' = "ok"
            /\ notif' = [notif EXCEPT ![state.notif] = IF rxAlive[state.notif] THEN "sent" ELSE "failed"]
            /\ got' = [got EXCEPT ![state.notif] = IF rxAlive[state.notif] THEN pkt.status.name ELSE @]
            /\ out' = Done(r, state, UrcSends(p.urcs) \o <<[ev |-> "packet", x |-> state.notif]>>, <<pkt>>)
            /\ UNCHANGED << engine, requests, rx >>

\* future.rs 100-103: no result code yet
Accumulate(r) ==
    /\ cur' = <<[cur[1] EXCEPT !.responses = @ \o r]>>
    /\ last' = "ok"
    /\ out' = [NoOut EXCEPT !.batch = r, !.active = <<cur[1].notif>>, !.expected = cur[1].expected]
    /\ UNCHANGED << engine, requests, rx, notif, got >>

\* Unsolicited keeping result codes away from the URC channel.
UnsolicitedNoResultCodes(r) ==
    /\ last' = "ok"
    /\ out' = [NoOut EXCEPT !.batch = r, !.sends = UrcSends(SelectSeq(r, LAMBDA x : ~is_result_code(x)))]
    /\ UNCHANGED << engine, cur, requests, rx, notif, got >>

\* future.rs 105-109: no active request, every line goes to the URC channel
Unsolicited(r) ==
    IF urcrx = "dropped"
    THEN /\ Exit("Err", Held)
         /\ last' = "urc"
         /\ out' = [NoOut EXCEPT !.batch = r]
         /\ UNCHANGED got
    ELSE /\ last' = "ok"
         /\ out' = [NoOut EXCEPT !.batch = r, !.sends = UrcSends(r)]
         /\ UNCHANGED << engine, cur, requests, rx, notif, got >>

\* The line last put on the URC channel, after the sends of an iteration.
LastUrc(sends, before) ==
    LET at == { k \in DOMAIN sends : sends[k].ev = "urc" }
    IN IF at = {} THEN before ELSE sends[CHOOSE k \in at : \A l \in at : l <= k].x

(* The batches the stream can yield next: the decoder returns the lines of  *)
(* every complete line in its buffer, whatever the modem sent, at least    *)
(* one.                                                                    *)
Batches ==
    UNION { { [i \in 1 .. len |-> MkLine(shapes[i], emitted + i)] : shapes \in [1 .. len -> LineShapes] } :
            len \in { l \in 1 .. MaxBatch : emitted + l <= MaxLines } }

\* future.rs 62-110: the stream yields the lines r decoded from its buffer
LoopBatch(r) ==
    /\ engine = "running" /\ ~fresh
    /\ emitted + Len(r) <= MaxLines
    /\ emitted' = emitted + Len(r)
    /\ IF cur # <<>>
       THEN IF \E i \in DOMAIN r : is_result_code(r[i])
            THEN Complete(r)
            ELSE Accumulate(r)
       ELSE Unsolicited(r)
    /\ urcn' = LastUrc(out'.sends, urcn)
    /\ UNCHANGED << fresh, written, wfull, tx, urcrx, rxAlive >>
    /\ UNCHANGED callVars

\* LoopEof returning an error.
LoopEofErr ==
    /\ engine = "running" /\ ~fresh
    /\ last' = "eof"
    /\ Exit("Err", Held)
    /\ UNCHANGED << fresh, written, wfull, got, urcn, out >>
    /\ UNCHANGED envVars
    /\ UNCHANGED callVars

\* future.rs 67-70: the stream ran out
LoopEof ==
    /\ engine = "running" /\ ~fresh
    /\ last' = "eof"
    /\ Exit("Ready", Held)
    /\ UNCHANGED << fresh, written, wfull, got, urcn, out >>
    /\ UNCHANGED envVars
    /\ UNCHANGED callVars

(* future.rs 63: the stream fails and the ? operator leaves poll.  cause is *)
(* "io" for an I/O error of the device and "parse" for the error that      *)
(* AtCodec::decode returns when parse::responses rejects the buffer        *)
(* (codec.rs 26), as it does on a line that holds one space.               *)
LoopErr(cause) ==
    /\ engine = "running" /\ ~fresh
    /\ last' = cause
    /\ Exit("Err", Held)
    /\ UNCHANGED << fresh, written, wfull, got, urcn, out >>
    /\ UNCHANGED envVars
    /\ UNCHANGED callVars

(* The sink of the framed stream.  flush is what the file descriptor does  *)
(* with a write during this poll: "flushed", "blocked" or "err".           *)
(* start_send first flushes a buffer that is at or over the boundary and   *)
(* rejects the item (NotReady) when the buffer stays there; otherwise it   *)
(* encodes the item into the buffer.                                       *)
start_send(full, cmd, flush) ==
    IF full /\ flush = "err" THEN [res |-> "Err", full |-> full]
    ELSE IF full /\ flush = "blocked" THEN [res |-> "NotReady", full |-> full]
    ELSE [res |-> "Ready", full |-> cmd.long]

\* poll_complete with the error of the write dropped.
poll_complete_unchecked(full, flush) ==
    IF flush = "flushed" THEN [res |-> "Ready", full |-> FALSE]
    ELSE [res |-> "NotReady", full |-> full]

poll_complete(full, flush) ==
    IF flush = "err" THEN [res |-> "Err", full |-> full]
    ELSE IF flush = "blocked" THEN [res |-> "NotReady", full |-> full]
    ELSE [res |-> "Ready", full |-> FALSE]

\* StartNext without the test that no request is active.
StartNextWhileActive(reqs, flush) ==
    IF Len(reqs) > 0
    THEN LET req == Head(reqs)
             s == start_send(wfull, req.command, flush)
         IN [err |-> s.res = "Err",
             requests |-> Tail(reqs),
             cur |-> <<[notif |-> req.notif, expected |-> req.expected, responses |-> <<>>]>>,
             accepted |-> IF s.res = "Ready" THEN <<req.notif>> ELSE <<>>,
             full |-> s.full]
    ELSE [err |-> FALSE, requests |-> reqs, cur |-> cur, accepted |-> <<>>, full |-> wfull]

\* StartNext taking the newest request of the queue instead of the oldest.
StartNextNewest(reqs, flush) ==
    IF cur = <<>> /\ Len(reqs) > 0
    THEN LET req == reqs[Len(reqs)]
             s == start_send(wfull, req.command, flush)
         IN [err |-> s.res = "Err",
             requests |-> SubSeq(reqs, 1, Len(reqs) - 1),
             cur |-> <<[notif |-> req.notif, expected |-> req.expected, responses |-> <<>>]>>,
             accepted |-> IF s.res = "Ready" THEN <<req.notif>> ELSE <<>>,
             full |-> s.full]
    ELSE [err |-> FALSE, requests |-> reqs, cur |-> cur, accepted |-> <<>>, full |-> wfull]

\* future.rs 127-136: start the next request when none is active
StartNext(reqs, flush) ==
    IF cur = <<>> /\ Len(reqs) > 0
    THEN LET req == Head(reqs)
             s == start_send(wfull, req.command, flush)
         IN [err |-> s.res = "Err",
             requests |-> Tail(reqs),
             cur |-> <<[notif |-> req.notif, expected |-> req.expected, responses |-> <<>>]>>,
             accepted |-> IF s.res = "Ready" THEN <<req.notif>> ELSE <<>>,
             full |-> s.full]
    ELSE [err |-> FALSE, requests |-> reqs, cur |-> cur, accepted |-> <<>>, full |-> wfull]

(* future.rs 111-138: the stream has nothing to read now; the loop is left, *)
(* the submitted requests are taken, the next one is started, the sink is  *)
(* flushed and poll returns NotReady.                                      *)
PollTail(flush) ==
    /\ engine = "running" /\ ~fresh
    /\ LET reqs == requests \o rx IN
       IF ~tx
       THEN \* future.rs 122-125: every sender is gone and the channel is empty
            /\ last' = "closed"
            /\ Exit("Ready", Held)
            /\ UNCHANGED << written, wfull >>
       ELSE LET s == StartNext(reqs, flush)
                f == poll_complete(s.full, flush)
            IN /\ written' = written \o s.accepted
               /\ wfull' = f.full
               /\ last' = IF flush = "err" THEN "io" ELSE "ok"
               /\ IF s.err \/ f.res = "Err"
                  THEN Exit("Err", Held)
                  ELSE /\ requests' = s.requests
                       /\ cur' = s.cur
                       /\ rx' = <<>>
                       /\ UNCHANGED << engine, notif >>
    /\ out' = NoOut
    /\ UNCHANGED << fresh, got, urcn >>
    /\ UNCHANGED envVars
    /\ UNCHANGED callVars

----------------------------------------------------------------------------
(* The users of the library.                                               *)

\* How many things the users have dropped.
Drops ==
    Cardinality({ i \in Ids : i # EchoId /\ notif[i] # "none" /\ ~rxAlive[i] })
    + (IF tx THEN 0 ELSE 1) + (IF tx /\ urcrx = "dropped" THEN 1 ELSE 0)

NextId == Cardinality({ i \in Ids : i # EchoId /\ notif[i] # "none" }) + 1

\* lib.rs 111-125: send_raw
send_raw(cmd) ==
    /\ tx
    /\ NextId <= MaxReqs
    /\ IF engine = "running"
       THEN /\ rx' = Append(rx, [command |-> cmd, expected |-> expected(cmd), notif |-> NextId])
            /\ notif' = [notif EXCEPT ![NextId] = "live"]
            /\ rxAlive' = [rxAlive EXCEPT ![NextId] = TRUE]
       ELSE /\ notif' = [notif EXCEPT ![NextId] = "senderr"]
            /\ rxAlive' = [rxAlive EXCEPT ![NextId] = TRUE]
            /\ UNCHANGED rx
    /\ UNCHANGED << engine, last, fresh, cur, requests, tx, urcrx, emitted,
                    written, wfull, got, urcn, out >>
    /\ UNCHANGED callVars

\* lib.rs 60-65 and errors.rs 73-77: what polling the ModemResponseFuture gives
Poll(i) ==
    CASE notif[i] = "senderr" -> "FutureDied"
      [] notif[i] = "sent" -> "Packet"
      [] notif[i] = "dropped" -> "FutureDied"
      [] OTHER -> "NotReady"

\* A submitter drops its ModemResponseFuture before the response came.
DropResponse(i) ==
    /\ Drops < MaxDrops
    /\ i # EchoId /\ notif[i] = "live" /\ rxAlive[i]
    /\ rxAlive' = [rxAlive EXCEPT ![i] = FALSE]
    /\ UNCHANGED << engine, last, fresh, cur, requests, rx, tx, urcrx, emitted,
                    written, wfull, notif, got, urcn, out >>
    /\ UNCHANGED callVars

\* lib.rs 107-109: the URC receiver is taken out of the handle with take_urc_rx and dropped
DropUrc ==
    /\ Drops < MaxDrops
    /\ engine = "running" /\ tx /\ urcrx = "open"
    /\ urcrx' = "dropped"
    /\ UNCHANGED << engine, last, fresh, cur, requests, rx, tx, emitted,
                    written, wfull, notif, got, rxAlive, urcn, out >>
    /\ UNCHANGED callVars

(* lib.rs 68-71: the HuaweiModem is dropped, and with it the channel's only *)
(* sender and the URC receiver, unless take_urc_rx took that out before    *)
(* (taken).                                                                *)
DropModem(taken) ==
    /\ Drops < MaxDrops
    /\ engine = "running" /\ tx
    /\ tx' = FALSE
    /\ urcrx' = IF taken THEN urcrx ELSE "dropped"
    /\ UNCHANGED << engine, last, fresh, cur, requests, rx, emitted,
                    written, wfull, notif, got, rxAlive, urcn, out >>
    /\ UNCHANGED callVars

Next ==
    \/ PollBegin
    \/ \E r \in Batches : LoopBatch(r)
    \/ LoopEof
    \/ \E cause \in {"io", "parse"} : LoopErr(cause)
    \/ \E flush \in {"flushed", "blocked", "err"} : PollTail(flush)
    \/ \E cmd \in Commands : send_raw(cmd)
    \/ \E i \in Ids : DropResponse(i)
    \/ DropUrc
    \/ \E taken \in BOOLEAN : DropModem(taken)

Spec == Init /\ [][Next]_vars

----------------------------------------------------------------------------
(* The claims.                                                             *)

\* A notifier the engine has used: its send was called (the packet was taken or discarded).
Resolved(i) == notif[i] \in {"sent", "failed"}

\* The commands the sink has accepted whose request has neither been resolved nor dropped.
InFlight == { i \in Ids : (\E k \in DOMAIN written : written[k] = i) /\ notif[i] = "live" }

(* C1: at most one command is in flight.  Every command the sink accepted  *)
(* whose result code has not been processed belongs to the active request, *)
(* so there is never a second one: a command is written only when no       *)
(* request is active, and the request stays active until its result code.  *)
C1_OneInFlight ==
    /\ Cardinality(InFlight) <= 1
    /\ InFlight \subseteq NotifsOf(cur)
    /\ \A c \in NotifsOf(cur) : notif[c] = "live"
    /\ \A k \in DOMAIN cur : \A l \in DOMAIN cur[k].responses : ~is_result_code(cur[k].responses[l])

\* C1 witness: the third command is in flight, after two were answered
C1_Witness ==
    /\ Len(written) = 3 /\ Cardinality(InFlight) = 1
    /\ Resolved(written[1]) /\ Resolved(written[2])

(* C2: notifiers are resolved in the order of submission.  send_raw gives  *)
(* the requests increasing numbers; whenever the request of a later call   *)
(* has been resolved, that of every earlier call has been too, and the     *)
(* requests waiting in the engine and in the channel are in call order.    *)
Waiting == [i \in DOMAIN (cur \o requests \o rx) |-> (cur \o requests \o rx)[i].notif]

C2_SubmissionOrder ==
    /\ \A i, j \in Ids \ {EchoId} : (i < j /\ Resolved(j)) => Resolved(i)
    /\ \A k, l \in DOMAIN Waiting : k < l => Waiting[k] < Waiting[l]
    /\ \A k \in DOMAIN Waiting, i \in Ids : Resolved(i) => i < Waiting[k]

\* C2 witness: two submitted commands, both answered with a packet
C2_Witness == notif[1] = "sent" /\ notif[2] = "sent"


\* An information response the request's expected set does not hold.
NonExpected(x, exp) == x.kind = "InformationResponse" /\ ~Contains(exp, x.name)

InSeq(x, sq) == \E k \in DOMAIN sq : sq[k] = x

\* The places in the last iteration's sends where line x went on the URC channel.
UrcAt(x) == { k \in DOMAIN out.sends : out.sends[k].ev = "urc" /\ out.sends[k].x = x.n }

\* The place of the packet in the last iteration's sends.
PacketAt == { k \in DOMAIN out.sends : out.sends[k].ev = "packet" }

(* C3: URC isolation.  When a request completes, an information response   *)
(* held for it whose param is not in its expected set is not among the     *)
(* packet's responses and has been sent once on the URC channel; nothing   *)
(* else of the request's lines goes there, and nothing is sent while the   *)
(* request only accumulates.                                               *)
C3_UrcIsolation ==
    /\ out.packet # <<>> =>
          /\ \A k \in DOMAIN out.raw :
                IF NonExpected(out.raw[k], out.expected)
                THEN /\ ~InSeq(out.raw[k], out.packet[1].responses)
                     /\ Cardinality(UrcAt(out.raw[k])) = 1
                ELSE UrcAt(out.raw[k]) = {}
          /\ \A k \in DOMAIN out.packet[1].responses :
                ~NonExpected(out.packet[1].responses[k], out.expected)
    /\ (out.active # <<>> /\ out.packet = <<>>) => out.sends = <<>>

\* C3 witness: a delivered packet keeps an expected line while another line of the request went to the URC channel
C3_Witness ==
    /\ out.packet # <<>> /\ notif[out.active[1]] = "sent"
    /\ \E k \in DOMAIN out.raw : NonExpected(out.raw[k], out.expected)
    /\ \E k \in DOMAIN out.packet[1].responses : out.packet[1].responses[k].kind = "InformationResponse"

(* C4: a batch read while no request is active goes to the URC channel     *)
(* whole and in order (information responses, unknown lines and result     *)
(* codes alike) as long as the URC channel has its receiver; it resolves   *)
(* no notifier, leaves the engine without an active request, and a request *)
(* that becomes active later starts with no lines.                         *)
C4_IdleLinesToUrc ==
    /\ []((out.active = <<>> /\ out.batch # <<>> /\ last # "urc") =>
            (out.sends = UrcSends(out.batch) /\ out.packet = <<>>))
    /\ [][(cur = <<>> /\ emitted' > emitted) =>
            /\ out'.active = <<>>
            /\ Len(out'.batch) = emitted' - emitted
            /\ \A k \in DOMAIN out'.batch : out'.batch[k].n = emitted + k
            /\ cur' = <<>>
            /\ got' = got
            /\ \A i \in Ids : ~Resolved(i) => ~Resolved(i)']_vars
    /\ [][(cur = <<>> /\ cur' # <<>>) => cur'[1].responses = <<>>]_vars

\* C4 witness: between two commands, a batch with a result code and another line has gone to the URC channel
C4_Witness ==
    /\ out.active = <<>> /\ Len(out.batch) = 2 /\ Len(out.sends) = 2
    /\ \E k \in DOMAIN out.batch : is_result_code(out.batch[k])
    /\ \E k \in DOMAIN out.batch : ~is_result_code(out.batch[k])
    /\ written # <<>> /\ requests # <<>>

Shape(x) == <<x.kind, x.name>>

(* C5: the URC items of a completing request are sent before its packet:   *)
(* the packet is the last send of the iteration and every non-expected     *)
(* information response of the request is sent before it.  With a +CREG    *)
(* read active and the lines +CMTI, +CREG, OK, the packet holds the +CREG  *)
(* response alone, with status OK, and the only send before it is +CMTI.   *)
C5_UrcBeforePacket ==
    out.packet # <<>> =>
       /\ PacketAt = {Len(out.sends)}
       /\ out.sends[Len(out.sends)].x = out.active[1]
       /\ \A k \in DOMAIN out.raw :
             NonExpected(out.raw[k], out.expected) => \E u \in UrcAt(out.raw[k]) : u < Len(out.sends)
       /\ (/\ out.expected = <<"+CREG">>
           /\ [k \in DOMAIN out.raw |-> Shape(out.raw[k])] =
                 << <<"InformationResponse", "+CMTI">>, <<"InformationResponse", "+CREG">>,
                    <<"ResultCode", "Ok">> >>)
          => /\ out.packet[1].responses = <<out.raw[2]>>
             /\ out.packet[1].status = out.raw[3]
             /\ out.sends = <<[ev |-> "urc", x |-> out.raw[1].n], [ev |-> "packet", x |-> out.active[1]]>>

\* C5 witness: the +CREG read has completed on the lines +CMTI, +CREG, OK
C5_Witness ==
    /\ out.packet # <<>> /\ out.expected = <<"+CREG">> /\ notif[out.active[1]] = "sent"
    /\ [k \in DOMAIN out.raw |-> Shape(out.raw[k])] =
          << <<"InformationResponse", "+CMTI">>, <<"InformationResponse", "+CREG">>,
             <<"ResultCode", "Ok">> >>

\* A request has just become active: the poll's tail took it from the queue.
Started(i) == i \notin NotifsOf(cur) /\ i \in NotifsOf(cur')

(* C6: a dropped response receiver changes nothing for the engine.  The    *)
(* command of a request whose receiver is gone is written: the sink        *)
(* accepts it in the step that makes the request active.  Its lines are    *)
(* consumed up to the result code; the failed send of its packet is        *)
(* ignored: the engine runs on with the queue as it was, and a command     *)
(* served after it gets its own packet.                                    *)
C6_DroppedReceiver ==
    /\ [][\A i \in Ids : (Started(i) /\ ~rxAlive[i]) =>
            /\ cur'[1].responses = <<>>
            /\ written' = Append(written, i)]_vars
    /\ [][\A i \in NotifsOf(cur) : (emitted' > emitted /\ last' # "urc") =>
            \/ /\ \A k \in DOMAIN out'.batch : ~is_result_code(out'.batch[k])
               /\ cur' = <<[cur[1] EXCEPT !.responses = @ \o out'.batch]>>
               /\ notif' = notif /\ got' = got
            \/ /\ \E k \in DOMAIN out'.batch : is_result_code(out'.batch[k])
               /\ out'.raw = cur[1].responses \o out'.batch
               /\ out'.packet # <<>> /\ InSeq(out'.packet[1].status, out'.batch)
               /\ cur' = <<>> /\ requests' = requests /\ rx' = rx
               /\ engine' = "running" /\ last' = "ok"
               /\ IF rxAlive[i]
                  THEN /\ notif' = [notif EXCEPT ![i] = "sent"]
                       /\ got' = [got EXCEPT ![i] = out'.packet[1].status.name]
                  ELSE /\ notif' = [notif EXCEPT ![i] = "failed"]
                       /\ got' = got]_vars

(* C7: when the handle is dropped while a request is active, the engine    *)
(* exits only after that request's result code: once the engine has        *)
(* returned because the request channel ended, every submitted command the *)
(* sink accepted has had its notifier resolved.                            *)
C7_ClosedAfterDraining ==
    last = "closed" =>
       \A k \in DOMAIN written : written[k] # EchoId => Resolved(written[k])

(* C8: when the stream ends, poll returns Ready, not an error; the step    *)
(* resolves no notifier: every request then active, queued or in the       *)
(* channel has its sender dropped, so that its submitter gets FutureDied   *)
(* and none is left waiting.                                               *)
C8_EofExit ==
    /\ [](last = "eof" =>
            /\ engine = "Ready"
            /\ \A i \in Ids : notif[i] # "live"
            /\ \A i \in Ids : (rxAlive[i] /\ ~Resolved(i)) => Poll(i) = "FutureDied")
    /\ [][(last' = "eof" /\ last # "eof") =>
            /\ got' = got
            /\ \A i \in Ids : notif'[i] = IF i \in Held THEN "dropped" ELSE notif[i]]_vars

\* C8 witness: the stream ended with the first submitted command in flight and the second waiting
C8_Witness ==
    /\ last = "eof" /\ engine = "Ready"
    /\ written = <<EchoId, 1>>
    /\ notif[1] = "dropped" /\ notif[2] = "dropped"
    /\ Poll(1) = "FutureDied" /\ Poll(2) = "FutureDied"

(* C9: a failure of the stream (an I/O error on read, on write or on       *)
(* flush, or an error of the codec) ends the engine with an error; the     *)
(* step resolves no notifier: every request then active, queued or in the  *)
(* channel has its sender dropped, so that its submitter gets FutureDied   *)
(* and none is left waiting.                                               *)
C9_TransportFailure ==
    /\ [](last \in {"io", "parse"} =>
            /\ engine = "Err"
            /\ \A i \in Ids : notif[i] # "live"
            /\ \A i \in Ids : (rxAlive[i] /\ ~Resolved(i)) => Poll(i) = "FutureDied")
    /\ [][(last' \in {"io", "parse"} /\ last \notin {"io", "parse"}) =>
            /\ got' = got
            /\ \A i \in Ids : notif'[i] = IF i \in Held THEN "dropped" ELSE notif[i]]_vars

\* C9 witness: the stream failed with one command in flight and two submitted ones waiting
C9_Witness ==
    /\ last = "io" /\ engine = "Err"
    /\ written = <<EchoId>> /\ notif[EchoId] = "dropped"
    /\ notif[1] = "dropped" /\ notif[2] = "dropped"
    /\ Poll(1) = "FutureDied" /\ Poll(2) = "FutureDied"

(* C10: an error of one command stays with that command.  A request that   *)
(* completes with a status other than Ok has that status delivered to its  *)
(* own notifier and to no other; the engine runs on, the queue and the     *)
(* channel are as they were.  A response to the active command that the    *)
(* codec cannot parse does not end the engine either and touches no other  *)
(* request.  Every request started afterwards starts with no lines, has    *)
(* its command written (the sink accepts it in the step that makes the     *)
(* request active) and is answered with a status taken from its own lines. *)
C10_PerCommandError ==
    /\ [][\A i \in NotifsOf(cur) :
            (emitted' > emitted /\ out'.packet # <<>> /\ ~is_ok(out'.packet[1].status)) =>
               /\ engine' = "running" /\ last' = "ok"
               /\ cur' = <<>> /\ requests' = requests /\ rx' = rx /\ written' = written
               /\ \A j \in Ids \ {i} : notif'[j] = notif[j] /\ got'[j] = got[j]
               /\ rxAlive[i] => (notif'[i] = "sent" /\ got'[i] = out'.packet[1].status.name)]_vars
    /\ [][\A i \in NotifsOf(cur) : (last' = "parse" /\ last # "parse") =>
            /\ engine' = "running"
            /\ requests' = requests /\ rx' = rx
            /\ \A j \in Ids \ {i} : notif'[j] = notif[j] /\ got'[j] = got[j]]_vars
    /\ [][\A i \in Ids : Started(i) =>
            /\ cur'[1].responses = <<>>
            /\ written' = Append(written, i)]_vars
    /\ [][\A i \in Ids : (got'[i] # got[i]) =>
            /\ cur # <<>> /\ cur[1].notif = i
            /\ \E k \in DOMAIN out'.batch :
                  is_result_code(out'.batch[k]) /\ out'.batch[k].name = got'[i]]_vars

(* C11: the first command the sink ever accepts is ATE0, whatever was      *)
(* submitted before the first poll.  The first poll puts the ATE0 request  *)
(* (Basic E 0, nothing expected) at the front of the queue and touches     *)
(* nothing that was submitted; the request exists once at most, is written *)
(* once at most, and its notifier's receiver never lives, so that its      *)
(* packet reaches nobody.                                                  *)
EchoRequest == [command |-> Basic("E", <<0>>), expected |-> <<>>, notif |-> EchoId]

C11_EchoFirst ==
    /\ [](/\ fresh => (written = <<>> /\ notif[EchoId] = "none" /\ requests = <<>>)
          /\ written # <<>> => written[1] = EchoId
          /\ Cardinality({ k \in DOMAIN written : written[k] = EchoId }) <= 1
          /\ Cardinality({ k \in DOMAIN Waiting : Waiting[k] = EchoId }) <= 1
          /\ \A k \in DOMAIN requests : requests[k].notif = EchoId => (k = 1 /\ requests[k] = EchoRequest)
          /\ EchoId \notin NotifsOf(rx)
          /\ ~rxAlive[EchoId] /\ got[EchoId] = "" /\ notif[EchoId] # "sent"
          /\ \A i \in Ids \ {EchoId} : Resolved(i) => notif[EchoId] = "failed")
    /\ [][(fresh /\ ~fresh') => (requests' = <<EchoRequest>> \o requests /\ rx' = rx)]_vars
    /\ [][~fresh => (~fresh' /\ (notif[EchoId] # "live" => notif'[EchoId] = notif[EchoId]))]_vars

\* C11 witness: two commands were submitted before the first poll ended; ATE0 was written and answered first
C11_Witness ==
    /\ written = <<EchoId, 1>> /\ notif[EchoId] = "failed" /\ got[EchoId] = ""
    /\ emitted = 1 /\ NotifsOf(requests) = {2}

(* C12: a packet has one status, the last result code of the lines held    *)
(* for the request (all of which are in the completing batch), and its     *)
(* responses are, in arrival order, the expected information responses and *)
(* the unknown lines among the lines the engine read while the request was *)
(* active: no result code and no other information response.               *)
KeptInPacket(x, exp) ==
    (x.kind = "InformationResponse" /\ Contains(exp, x.name)) \/ x.kind = "Unknown"

C12_PacketContents ==
    /\ [](out.packet # <<>> =>
            /\ out.packet[1].responses = SelectSeq(out.raw, LAMBDA x : KeptInPacket(x, out.expected))
            /\ is_result_code(out.packet[1].status)
            /\ \E k \in DOMAIN out.raw :
                  /\ out.raw[k] = out.packet[1].status
                  /\ \A l \in DOMAIN out.raw : l > k => ~is_result_code(out.raw[l])
            /\ \A k \in DOMAIN out.raw :
                  is_result_code(out.raw[k]) => InSeq(out.raw[k], out.batch)
            /\ \A k \in DOMAIN out.packet[1].responses :
                  ~is_result_code(out.packet[1].responses[k]))
    /\ [][\A i \in NotifsOf(cur) : (emitted' > emitted /\ out'.packet # <<>>) =>
            /\ out'.raw = cur[1].responses \o out'.batch
            /\ out'.expected = cur[1].expected
            /\ \A k \in DOMAIN out'.raw : out'.raw[k].n = emitted' - Len(out'.raw) + k]_vars
    /\ [][\A i \in Ids : Started(i) => cur'[1].responses = <<>>]_vars

\* C12 witness: a submitter got a packet made of an expected response and an unknown line read in two batches
C12_Witness ==
    /\ out.packet # <<>> /\ notif[out.active[1]] = "sent"
    /\ Len(out.raw) = 3 /\ Len(out.batch) < 3
    /\ Len(out.packet[1].responses) = 2
    /\ out.packet[1].responses[1].kind = "InformationResponse"
    /\ out.packet[1].responses[2].kind = "Unknown"

(* C13: the lines reach the URC channel in the order the engine read them: *)
(* the items an iteration sends are in increasing position, all after the  *)
(* item sent last before, whether they come from an idle batch or from the *)
(* lines of a completing request.                                          *)
UrcItems(sends) == SelectSeq(sends, LAMBDA e : e.ev = "urc")

C13_UrcOrder ==
    /\ [][emitted' > emitted =>
            LET items == UrcItems(out'.sends)
            IN /\ \A k \in DOMAIN items : urcn < items[k].x /\ items[k].x <= emitted'
               /\ \A k, l \in DOMAIN items : k < l => items[k].x < items[l].x
               /\ urcn' = IF items = <<>> THEN urcn ELSE items[Len(items)].x]_vars
    /\ [][emitted' = emitted => urcn' = urcn]_vars

\* C13 witness: two lines read for a submitted command went to the URC channel, in order, when it completed
C13_Witness ==
    /\ out.packet # <<>> /\ Len(UrcItems(out.sends)) = 2
    /\ out.raw[1].n > 1 /\ out.active # <<EchoId>>
    /\ urcn = emitted - 1

(* C22: a request is made the active one only with its command accepted by *)
(* the sink: in the step that starts request i, the sink takes i's command *)
(* into its write buffer, also when the buffer stands at its boundary and  *)
(* the write is blocked.                                                   *)
C22_ActiveAccepted ==
    [][\A i \in Ids : Started(i) => written' = Append(written, i)]_vars

(* C28: a batch with a result code read while a request is active belongs  *)
(* to that request whole.  The request's lines are what it held followed   *)
(* by every line of the batch, those after the result code too: the        *)
(* expected information responses and unknown lines among them are in the  *)
(* packet, the packet's status is the last result code of the batch, and   *)
(* nothing is kept back: no request is active after the step, and the      *)
(* request started next starts with no lines.                              *)
C28_WholeBatch ==
    /\ [][\A i \in NotifsOf(cur) :
            (/\ emitted' > emitted /\ last' # "urc"
             /\ \E k \in DOMAIN out'.batch : is_result_code(out'.batch[k])) =>
               /\ out'.active = <<i>>
               /\ Len(out'.batch) = emitted' - emitted
               /\ out'.raw = cur[1].responses \o out'.batch
               /\ out'.packet # <<>>
               /\ out'.packet[1].responses =
                     SelectSeq(out'.raw, LAMBDA x : KeptInPacket(x, cur[1].expected))
               /\ \A k \in DOMAIN out'.batch :
                     /\ KeptInPacket(out'.batch[k], cur[1].expected) =>
                           InSeq(out'.batch[k], out'.packet[1].responses)
                     /\ (/\ is_result_code(out'.batch[k])
                         /\ \A l \in DOMAIN out'.batch : l > k => ~is_result_code(out'.batch[l])) =>
                           out'.packet[1].status = out'.batch[k]
               /\ cur' = <<>>]_vars
    /\ [][\A i \in Ids : Started(i) => cur'[1].responses = <<>>]_vars

\* C28 witness: a submitter got a packet holding the unknown line that followed the result code in the batch
C28_Witness ==
    /\ out.packet # <<>> /\ out.active # <<EchoId>> /\ notif[out.active[1]] = "sent"
    /\ Len(out.batch) = 2
    /\ is_result_code(out.batch[1]) /\ out.batch[2].kind = "Unknown"
    /\ InSeq(out.batch[2], out.packet[1].responses)
    /\ out.packet[1].status = out.batch[1]

\* The lines the engine hands to the URC channel when it reads batch r.
ToUrc(r) ==
    IF cur = <<>> THEN r
    ELSE IF \E k \in DOMAIN r : is_result_code(r[k])
         THEN SelectSeq(cur[1].responses \o r, LAMBDA x : NonExpected(x, cur[1].expected))
         ELSE <<>>

(* C29: with the URC receiver dropped, the first line the engine has to    *)
(* send on the URC channel (a line read while idle, or a non-expected      *)
(* information response among the lines of a completing request) ends the  *)
(* engine with an error.  The step sends nothing: the request being        *)
(* completed gets no packet although its result code has been read, and    *)
(* its sender, like that of every queued or submitted request, is dropped, *)
(* so that the submitters get FutureDied.                                  *)
C29_UrcReceiverDropped ==
    /\ [][(emitted' > emitted /\ urcrx = "dropped" /\ ToUrc(out'.batch) # <<>>) =>
            /\ engine' = "Err" /\ last' = "urc"
            /\ out'.sends = <<>> /\ out'.packet = <<>>
            /\ got' = got
            /\ cur' = <<>> /\ requests' = <<>> /\ rx' = <<>>
            /\ \A i \in Ids : notif'[i] = IF i \in Held THEN "dropped" ELSE notif[i]
            /\ \A i \in NotifsOf(cur) :
                  /\ \E k \in DOMAIN out'.batch : is_result_code(out'.batch[k])
                  /\ notif'[i] = "dropped"
                  /\ rxAlive[i] => Poll(i)' = "FutureDied"]_vars
    /\ [][(emitted' > emitted /\ ~(urcrx = "dropped" /\ ToUrc(out'.batch) # <<>>)) =>
            last' # "urc"]_vars
    /\ [](last = "urc" => (engine = "Err" /\ urcrx = "dropped" /\ \A i \in Ids : notif[i] # "live"))

\* C29 witness: the engine failed completing the first submitted command, whose result code it had read; the second was waiting
C29_Witness ==
    /\ last = "urc" /\ engine = "Err" /\ urcrx = "dropped"
    /\ out.active = <<1>> /\ rxAlive[1] /\ rxAlive[2]
    /\ \E k \in DOMAIN out.batch : is_result_code(out.batch[k])
    /\ notif[1] = "dropped" /\ notif[2] = "dropped"
    /\ Poll(1) = "FutureDied" /\ Poll(2) = "FutureDied"

(* The engine with a healthy stream and users that keep what they hold:    *)
(* the stream neither ends nor fails, the handle, the URC receiver and the *)
(* response futures are kept.  The modem sends lines of its own only as    *)
(* long as MaxLines leaves it one line for every command to come, so that  *)
(* the bound never keeps an answer back.                                   *)
ModemLines(r) ==
    /\ LoopBatch(r)
    /\ emitted' + Cardinality({ i \in Ids : notif'[i] \in {"none", "live"} }) <= MaxLines

\* The modem answers the command it was sent: the batch holds a result code.
Answer(r) ==
    /\ cur # <<>> /\ \E k \in DOMAIN written : written[k] = cur[1].notif
    /\ \E k \in DOMAIN r : is_result_code(r[k])
    /\ ModemLines(r)

(* The task is polled whenever the stream can be read or written or a      *)
(* request was submitted, the port takes the bytes of the write buffer in  *)
(* the end, and the modem answers every command written.                   *)
SpecLive ==
    /\ Init
    /\ [][\/ PollBegin
          \/ \E r \in Batches : ModemLines(r)
          \/ \E flush \in {"flushed", "blocked"} : PollTail(flush)
          \/ \E cmd \in Commands : send_raw(cmd)]_vars
    /\ WF_vars(PollBegin)
    /\ WF_vars(PollTail("flushed"))
    /\ WF_vars(\E r \in Batches : Answer(r))

\* A notifier is used once, by the step that reads a result code while its request is active.
SignalledOnce ==
    /\ [][\A i \in Ids : (Resolved(i)' /\ ~Resolved(i)) =>
            /\ NotifsOf(cur) = {i}
            /\ emitted' > emitted
            /\ \E k \in DOMAIN out'.batch : is_result_code(out'.batch[k])]_vars
    /\ [][\A i \in Ids : Resolved(i) => (notif'[i] = notif[i] /\ got'[i] = got[i])]_vars

(* C23: the notifier of a request is signalled at most once, and only by   *)
(* the step that reads a result code while the request is active; with a   *)
(* healthy stream, the channel open and a modem that answers every command *)
(* written, every command submitted with send_raw gets its packet in the   *)
(* end.                                                                    *)
C23_NotifierResolved ==
    /\ SignalledOnce
    /\ \A i \in Ids \ {EchoId} : (notif[i] = "live") ~> (notif[i] = "sent")

(* The engine serving list_sms_pdu (cmd/sms.rs 174-177): the users submit  *)
(* AT+CMGL=<status>, and the modem emits +CMGL listings, PDU lines, +CMTI  *)
(* notifications and result codes in any order.                            *)
Equals(param, value) == [shape |-> "Equals", name |-> param, number |-> <<value>>, expected |-> <<>>, long |-> FALSE]

ListBatches ==
    LET shapes == { <<"InformationResponse", "+CMGL">>, <<"InformationResponse", "+CMTI">>,
                    <<"Unknown", "text">>, <<"ResultCode", "Ok">>, <<"ResultCode", "Error">> }
    IN UNION { { [i \in 1 .. len |-> MkLine(s[i], emitted + i)] : s \in [1 .. len -> shapes] } :
               len \in { l \in 1 .. MaxBatch : emitted + l <= MaxLines } }

SpecList ==
    /\ Init
    /\ [][\/ PollBegin
          \/ \E r \in ListBatches : LoopBatch(r)
          \/ \E flush \in {"flushed", "blocked"} : PollTail(flush)
          \/ \E status \in 0 .. 4 : send_raw(Equals("+CMGL", status))]_vars

(* C30: the assertion of list_sms_pdu holds.  The request of AT+CMGL has   *)
(* the expected set {"+CMGL"}, and every information response in a packet  *)
(* made for it has the param "+CMGL", whatever lines the modem sent while  *)
(* it was active: those with another param are not in the packet.          *)
C30_AssertionHolds ==
    /\ \A status \in 0 .. 4 : expected(Equals("+CMGL", status)) = <<"+CMGL">>
    /\ \A k \in DOMAIN (cur \o requests \o rx) :
          (cur \o requests \o rx)[k].notif # EchoId => (cur \o requests \o rx)[k].expected = <<"+CMGL">>
    /\ (out.packet # <<>> /\ out.active # <<EchoId>>) =>
          /\ out.expected = <<"+CMGL">>
          /\ \A k \in DOMAIN out.packet[1].responses :
                out.packet[1].responses[k].kind = "InformationResponse" =>
                   out.packet[1].responses[k].name = "+CMGL"

\* C30 witness: list_sms_pdu got an Ok packet with a +CMGL line, while a +CMTI line read for it was kept out
C30_Witness ==
    /\ out.packet # <<>> /\ out.active # <<EchoId>> /\ notif[out.active[1]] = "sent"
    /\ is_ok(out.packet[1].status)
    /\ \E k \in DOMAIN out.raw : out.raw[k].kind = "InformationResponse" /\ out.raw[k].name = "+CMTI"
    /\ \E k \in DOMAIN out.packet[1].responses :
          out.packet[1].responses[k].kind = "InformationResponse"

----------------------------------------------------------------------------
(* The library's pure functions.  An octet is a number in 0 .. 255; the    *)
(* operators below are Rust's operators on u8.                             *)

Bit(x, k) == (x \div 2^k) % 2

\* a & b
BitAnd(a, b) ==
    LET RECURSIVE upto(_)
        upto(k) == IF k < 0 THEN 0 ELSE 2^k * (Bit(a, k) * Bit(b, k)) + upto(k - 1)
    IN upto(7)

\* a | b
BitOr(a, b) ==
    LET RECURSIVE upto(_)
        upto(k) == IF k < 0 THEN 0
                   ELSE 2^k * (IF Bit(a, k) + Bit(b, k) > 0 THEN 1 ELSE 0) + upto(k - 1)
    IN upto(7)

\* a << k on u8, for k < 8: the bits shifted out are lost
Shl(a, k) == (a * 2^k) % 256

\* a >> k
Shr(a, k) == a \div 2^k

(* What an operator that returns octets returns for a call that panics (an  *)
(* index past the end, an overflow): no octet is negative.                 *)
Panic == <<0 - 1>>

(* gsm_encoding/mod.rs 307-334: encode_sms_7bit.  One iteration of the     *)
(* loop (319-332) at the i-th septet (counted from 1); lo is the source's  *)
(* cur.                                                                    *)
encode_sms_7bit_iter(orig, i, st) ==
    IF st.chars_cur = 0 THEN [st EXCEPT !.chars_cur = 7]
    ELSE LET lo == Shr(BitAnd(orig[i], 127), 7 - st.chars_cur)
             next == IF i + 1 <= Len(orig) THEN Shl(orig[i + 1], st.chars_cur) ELSE 0
         IN [rt |-> Append(st.rt, BitOr(lo, next)), chars_cur |-> st.chars_cur - 1]

\* The iterations at the septets from..to in order, one half of them after the other.
RECURSIVE encode_sms_7bit_loop(_, _, _, _)
encode_sms_7bit_loop(orig, from, to, st) ==
    IF from > to THEN st
    ELSE IF from = to THEN encode_sms_7bit_iter(orig, from, st)
    ELSE LET mid == (from + to) \div 2
             half == encode_sms_7bit_loop(orig, from, mid, st)
         IN IF half.chars_cur \in 0 .. 7
            THEN encode_sms_7bit_loop(orig, mid + 1, to, half)
            ELSE half

encode_sms_7bit(orig, padding) ==
    IF padding > 0 /\ Len(orig) > 0
    THEN encode_sms_7bit_loop(orig, 1, Len(orig),
             [rt |-> <<Shl(orig[1], padding)>>, chars_cur |-> padding - 1]).rt
    ELSE encode_sms_7bit_loop(orig, 1, Len(orig), [rt |-> <<>>, chars_cur |-> 7]).rt

(* gsm_encoding/mod.rs 279-306: decode_sms_7bit.  One iteration of the     *)
(* loop (287-301) at the j-th octet (counted from 1); i counts from 0 as   *)
(* in the source.                                                          *)
decode_sms_7bit_iter(orig, len, j, st) ==
    LET wrap == st.chars_cur = 0
        cc == IF wrap THEN 7 ELSE st.chars_cur
        r1 == IF wrap THEN Append(st.rt, 0) ELSE st.rt
        i1 == IF wrap THEN st.i + 1 ELSE st.i
        data == orig[j]
        next == Shr(data, cc)
        lo == Shl(Shr(Shl(data, 8 - cc), 8 - cc), 7 - cc)
    IN IF i1 + 1 > Len(r1) THEN [st EXCEPT !.rt = Panic]
       ELSE LET r2 == [r1 EXCEPT ![i1 + 1] = BitOr(@, lo)]
                r3 == IF j < Len(orig) \/ Len(r2) < len THEN Append(r2, next) ELSE r2
            IN [rt |-> r3, chars_cur |-> cc - 1, i |-> i1 + 1]

\* The iterations at the octets from..to in order, one half of them after the other.
RECURSIVE decode_sms_7bit_loop(_, _, _, _, _)
decode_sms_7bit_loop(orig, len, from, to, st) ==
    IF from > to THEN st
    ELSE IF from = to THEN decode_sms_7bit_iter(orig, len, from, st)
    ELSE LET mid == (from + to) \div 2
             half == decode_sms_7bit_loop(orig, len, from, mid, st)
         IN IF half.rt = Panic THEN half
            ELSE decode_sms_7bit_loop(orig, len, mid + 1, to, half)

decode_sms_7bit(orig, padding, len) ==
    LET rt == decode_sms_7bit_loop(orig, len, 1, Len(orig),
                  [rt |-> <<0>>,
                   chars_cur |-> IF padding > 0 /\ Len(orig) > 0 THEN padding ELSE 7,
                   i |-> 0]).rt
    IN IF rt # Panic /\ padding > 0 /\ Len(rt) > 0 THEN Tail(rt) ELSE rt

----------------------------------------------------------------------------
(* The septet codec applied to every short sequence of septets.            *)

\* Length of the septet sequences packed.
MaxSeptets == 3

\* The septets the sequences are made of: every bit pattern at both ends of a septet.
SeptetValues == {0, 1, 64, 127}

SeptetInputs ==
    { [s |-> sq, p |-> p] :
        sq \in UNION { [1 .. n -> SeptetValues] : n \in 0 .. MaxSeptets }, p \in 0 .. 6 }

SeptetInit ==
    /\ EngineInit
    /\ call = "encode_sms_7bit" /\ arg \in SeptetInputs /\ ret = <<>>

Pack ==
    /\ call = "encode_sms_7bit"
    /\ ret' = <<encode_sms_7bit(arg.s, arg.p)>>
    /\ call' = "decode_sms_7bit"
    /\ UNCHANGED << arg, engineVars >>

Unpack ==
    /\ call = "decode_sms_7bit"
    /\ ret' = Append(ret, decode_sms_7bit(ret[1], arg.p, Len(arg.s)))
    /\ call' = "done"
    /\ UNCHANGED << arg, engineVars >>

SpecSeptet == SeptetInit /\ [][Pack \/ Unpack]_vars

(* C15: septet packing law.  For every sequence S of N septets and every   *)
(* padding p in 0 .. 6, unpacking N septets with padding p from            *)
(* encode_sms_7bit(S, p) gives S back.                                     *)
C15_SeptetRoundTrip ==
    (call = "done" /\ arg \in SeptetInputs) => ret[2] = arg.s

----------------------------------------------------------------------------
(* pdu.rs: the enums with their discriminants (repr(u8)), as functions     *)
(* from the variant's name to its octet.                                   *)

MessageType == [SmsDeliver |-> 0, SmsSubmit |-> 1, SmsCommand |-> 2, Reserved |-> 3]
VpFieldValidity == [Invalid |-> 0, Relative |-> 8, Enhanced |-> 4, Absolute |-> 12]
MessageWaitingType == [Voice |-> 0, Fax |-> 1, Email |-> 2, Unknown |-> 3]
MessageClass == [Silent |-> 0, StoreToNv |-> 1, StoreToSim |-> 2, StoreToTe |-> 3]
MessageEncoding == [Gsm7Bit |-> 0, EightBit |-> 4, Ucs2 |-> 8, Reserved |-> 12]
TypeOfNumber ==
    [Unknown |-> 0, International |-> 16, National |-> 32, Special |-> 48,
     Gsm |-> 80, Short |-> 96, Reserved |-> 112]
NumberingPlanIdentification ==
    [NetworkDetermined |-> 0, IsdnTelephone |-> 1, Data |-> 3, Telex |-> 4,
     National |-> 8, Private |-> 9, Ermes |-> 10]

\* FromPrimitive::from_u8: <<variant>>, or <<>> (None) when no variant has the octet b
from_u8(enum, b) ==
    IF \E v \in DOMAIN enum : enum[v] = b
    THEN <<CHOOSE v \in DOMAIN enum : enum[v] = b>>
    ELSE <<>>

(* pdu.rs 295-311: DataCodingScheme.  Every variant is a record with all   *)
(* the fields; the fields a variant lacks are FALSE or "".                 *)
Standard(compressed, class, encoding) ==
    [variant |-> "Standard", compressed |-> compressed, class |-> class, encoding |-> encoding,
     waiting |-> FALSE, type_indication |-> "", ucs2 |-> FALSE]
DcsReserved ==
    [variant |-> "Reserved", compressed |-> FALSE, class |-> "", encoding |-> "",
     waiting |-> FALSE, type_indication |-> "", ucs2 |-> FALSE]
MessageWaitingDiscard(waiting, type_indication) ==
    [variant |-> "MessageWaitingDiscard", compressed |-> FALSE, class |-> "", encoding |-> "",
     waiting |-> waiting, type_indication |-> type_indication, ucs2 |-> FALSE]
MessageWaiting(waiting, type_indication, ucs2) ==
    [variant |-> "MessageWaiting", compressed |-> FALSE, class |-> "", encoding |-> "",
     waiting |-> waiting, type_indication |-> type_indication, ucs2 |-> ucs2]

\* pdu.rs 328-375: From<u8> for DataCodingScheme
DataCodingScheme_from(b) ==
    IF BitAnd(b, 192) = 0
    THEN LET compressed == BitAnd(b, 32) > 0
             reserved == BitAnd(b, 16) > 0
             class == IF reserved THEN "StoreToNv" ELSE from_u8(MessageClass, BitAnd(b, 3))[1]
             encoding == from_u8(MessageEncoding, BitAnd(b, 12))[1]
         IN Standard(compressed, class, encoding)
    ELSE IF BitAnd(b, 240) = 240
    THEN Standard(FALSE, from_u8(MessageClass, BitAnd(b, 3))[1],
                  IF BitAnd(b, 4) > 0 THEN "Gsm7Bit" ELSE "EightBit")
    ELSE IF BitAnd(b, 240) = 192
    THEN MessageWaitingDiscard(BitAnd(b, 8) > 0, from_u8(MessageWaitingType, BitAnd(b, 3))[1])
    ELSE IF BitAnd(b, 240) = 208 \/ BitAnd(b, 240) = 224
    THEN MessageWaiting(BitAnd(b, 8) > 0, from_u8(MessageWaitingType, BitAnd(b, 3))[1],
                        BitAnd(b, 240) = 224)
    ELSE DcsReserved

\* pdu.rs 376-413: Into<u8> for DataCodingScheme
DataCodingScheme_into(d) ==
    CASE d.variant = "Standard" ->
            BitOr(BitOr(BitOr(16, IF d.compressed THEN 32 ELSE 0), MessageClass[d.class]),
                  MessageEncoding[d.encoding])
      [] d.variant = "Reserved" -> 69
      [] d.variant = "MessageWaiting" ->
            BitOr(BitOr(IF d.ucs2 THEN 224 ELSE 208, IF d.waiting THEN 8 ELSE 0),
                  MessageWaitingType[d.type_indication])
      [] d.variant = "MessageWaitingDiscard" ->
            BitOr(BitOr(192, IF d.waiting THEN 8 ELSE 0), MessageWaitingType[d.type_indication])

----------------------------------------------------------------------------
(* The data coding scheme decoded from every octet, encoded and decoded     *)
(* again.                                                                  *)

DcsInit ==
    /\ EngineInit
    /\ call = "DataCodingScheme::from" /\ arg \in 0 .. 255 /\ ret = <<>>

DcsDecode ==
    /\ call = "DataCodingScheme::from"
    /\ ret' = <<DataCodingScheme_from(arg)>>
    /\ call' = "DataCodingScheme::into"
    /\ UNCHANGED << arg, engineVars >>

DcsEncode ==
    /\ call = "DataCodingScheme::into"
    /\ ret' = Append(ret, DataCodingScheme_into(ret[1]))
    /\ call' = "DataCodingScheme::from again"
    /\ UNCHANGED << arg, engineVars >>

DcsDecodeAgain ==
    /\ call = "DataCodingScheme::from again"
    /\ ret' = Append(ret, DataCodingScheme_from(ret[2]))
    /\ call' = "done"
    /\ UNCHANGED << arg, engineVars >>

SpecDcs == DcsInit /\ [][DcsDecode \/ DcsEncode \/ DcsDecodeAgain]_vars

(* C19: the encoding of a data coding scheme is the inverse of its         *)
(* decoding.  For every octet b, the scheme decoded from b, encoded to an  *)
(* octet and decoded again is the scheme decoded from b; Reserved encodes  *)
(* to 0x45, which decodes to Reserved.                                     *)
C19_DcsRoundTrip ==
    (call = "done" /\ arg \in 0 .. 255) =>
        /\ ret[3] = ret[1]
        /\ ret[1].variant = "Reserved" => ret[2] = 69

----------------------------------------------------------------------------
(* pdu.rs: addresses, first octets, SMS-SUBMIT and SMS-DELIVER PDUs.       *)

\* HuaweiResult: Ok(v), Err(HuaweiError::InvalidPdu(reason)), or the call panicked
Ok(v) == [res |-> "Ok", val |-> v]
InvalidPdu(reason) == [res |-> "Err", val |-> reason]
Panicked == [res |-> "panic", val |-> "index out of bounds"]

\* b.get(offset).is_some(), offset counted from 0
Get(b, offset) == offset < Len(b)

\* b[offset], offset counted from 0
At(b, offset) == b[offset + 1]

\* b[from..to], counted from 0
Slice(b, from, to) == SubSeq(b, from + 1, to)

\* pdu.rs 99-113: TryFrom<u8> for AddressType
AddressType_try_from(b) ==
    LET ton == from_u8(TypeOfNumber, BitAnd(b, 112))
        npi == from_u8(NumberingPlanIdentification, BitAnd(b, 15))
    IN IF ton = <<>> THEN InvalidPdu("invalid type_of_number")
       ELSE IF npi = <<>> THEN InvalidPdu("invalid numbering_plan_identification")
       ELSE Ok([type_of_number |-> ton[1], numbering_plan_identification |-> npi[1]])

\* pdu.rs 114-121: Into<u8> for AddressType
AddressType_into(t) ==
    BitOr(BitOr(128, TypeOfNumber[t.type_of_number]),
          NumberingPlanIdentification[t.numbering_plan_identification])

\* pdu.rs 124-137: From<&[u8]> for PhoneNumber
RECURSIVE PhoneNumber_from(_)
PhoneNumber_from(b) ==
    IF b = <<>> THEN <<>>
    ELSE LET first == BitAnd(Head(b), 15)
             second == Shr(BitAnd(Head(b), 240), 4)
         IN (IF second # 15 THEN <<first, second>> ELSE <<first>>) \o PhoneNumber_from(Tail(b))

\* pdu.rs 139-159: PhoneNumber::as_bytes, from the i-th digit (counted from 0) on
RECURSIVE PhoneNumber_as_bytes_loop(_, _, _, _)
PhoneNumber_as_bytes_loop(digits, i, rt, acc) ==
    IF i >= Len(digits)
    THEN IF Len(digits) % 2 # 0 THEN Append(rt, BitOr(acc, 240)) ELSE rt
    ELSE IF i % 2 = 0
         THEN PhoneNumber_as_bytes_loop(digits, i + 1, rt, BitOr(acc, At(digits, i)))
         ELSE PhoneNumber_as_bytes_loop(digits, i + 1,
                                        Append(rt, BitOr(acc, Shl(At(digits, i), 4))), 0)

PhoneNumber_as_bytes(digits) == PhoneNumber_as_bytes_loop(digits, 0, <<>>, 0)

\* pdu.rs 211-221: TryFrom<&[u8]> for PduAddress
PduAddress_try_from(b) ==
    IF Len(b) < 2 THEN InvalidPdu("tried to make a PduAddress from less than 2 bytes")
    ELSE LET type_addr == AddressType_try_from(At(b, 0))
         IN IF type_addr.res # "Ok" THEN type_addr
            ELSE Ok([type_addr |-> type_addr.val, number |-> PhoneNumber_from(Tail(b))])

\* pdu.rs 223-234: PduAddress::as_bytes
PduAddress_as_bytes(addr, broken_len) ==
    LET rt == <<AddressType_into(addr.type_addr)>> \o PhoneNumber_as_bytes(addr.number)
        len == IF broken_len THEN Len(addr.number) ELSE Len(rt)
    IN <<len % 256>> \o rt

\* pdu.rs 261-273: From<u8> for PduFirstOctet
PduFirstOctet_from(b) ==
    [rd |-> BitAnd(b, 4) > 0,
     srr |-> BitAnd(b, 32) > 0,
     udhi |-> BitAnd(b, 64) > 0,
     rp |-> BitAnd(b, 128) > 0,
     mti |-> from_u8(MessageType, BitAnd(b, 3))[1],
     vpf |-> from_u8(VpFieldValidity, BitAnd(b, 12))[1]]

\* pdu.rs 274-293: Into<u8> for PduFirstOctet
PduFirstOctet_into(fo) ==
    LET b0 == BitOr(MessageType[fo.mti], VpFieldValidity[fo.vpf])
        b1 == IF fo.rd THEN BitOr(b0, 4) ELSE b0
        b2 == IF fo.srr THEN BitOr(b1, 32) ELSE b1
        b3 == IF fo.udhi THEN BitOr(b2, 64) ELSE b2
    IN IF fo.rp THEN BitOr(b3, 128) ELSE b3

\* pdu.rs 673-698: Pdu::as_bytes
Pdu_as_bytes(P) ==
    LET sca == IF P.sca # <<>> THEN PduAddress_as_bytes(P.sca[1], FALSE) ELSE <<0>>
        scalen == IF P.sca # <<>> THEN Len(sca) ELSE 1
        rt == sca
              \o <<PduFirstOctet_into(P.first_octet), P.message_id>>
              \o PduAddress_as_bytes(P.destination, TRUE)
              \o <<0, DataCodingScheme_into(P.dcs)>>
              \o (IF P.first_octet.vpf # "Invalid" THEN <<P.validity_period>> ELSE <<>>)
              \o <<P.user_data_len>>
              \o P.user_data
    IN [bytes |-> rt, tpdu_len |-> Len(rt) - scalen]

(* pdu.rs 609-672: TryFrom<&[u8]> for Pdu.  The service centre address     *)
(* first (612-621), then the rest of the fields from the offset after it.  *)
Pdu_try_from_sca(b) ==
    LET scalen == At(b, 0)
        offset == scalen + 1
    IN IF scalen > 0
       THEN IF ~Get(b, offset - 1) THEN InvalidPdu("Offset check failed for: SCA")
            ELSE LET a == PduAddress_try_from(Slice(b, 1, offset))
                 IN IF a.res = "Ok" THEN Ok(<<a.val>>) ELSE a
       ELSE Ok(<<>>)

Pdu_try_from_tail(b, sca, first_octet, message_id, destination, offset) ==
    IF ~Get(b, offset) THEN InvalidPdu("Offset check failed for: protocol identifier")
    ELSE IF ~Get(b, offset + 1) THEN InvalidPdu("Offset check failed for: data coding scheme")
    ELSE LET dcs == DataCodingScheme_from(At(b, offset + 1))
             vp == first_octet.vpf # "Invalid"
             o3 == IF vp THEN offset + 3 ELSE offset + 2
         IN IF vp /\ ~Get(b, offset + 2) THEN InvalidPdu("Offset check failed for: validity period")
            ELSE IF ~Get(b, o3) THEN InvalidPdu("Offset check failed for: user data len")
            ELSE Ok([sca |-> sca,
                     first_octet |-> first_octet,
                     message_id |-> message_id,
                     destination |-> destination,
                     dcs |-> dcs,
                     validity_period |-> IF vp THEN At(b, offset + 2) ELSE 0,
                     user_data |-> IF Get(b, o3 + 1) THEN Slice(b, o3 + 1, Len(b)) ELSE <<>>,
                     user_data_len |-> At(b, o3)])

Pdu_try_from(b) ==
    IF ~Get(b, 0) THEN Panicked     \* line 612: b[0]
    ELSE LET sca == Pdu_try_from_sca(b)
             offset == At(b, 0) + 1
         IN IF sca.res # "Ok" THEN sca
            ELSE IF ~Get(b, offset) THEN InvalidPdu("Offset check failed for: first octet")
            ELSE IF ~Get(b, offset + 1) THEN InvalidPdu("Offset check failed for: message ID")
            ELSE IF ~Get(b, offset + 2) THEN InvalidPdu("Offset check failed for: destination len")
            ELSE LET destination_len == At(b, offset + 2)
                     real_len == (destination_len \div 2) + (destination_len % 2) + 1
                     destination_end == offset + 3 + real_len
                 IN IF ~Get(b, destination_end - 1)
                    THEN InvalidPdu("Offset check failed for: destination address")
                    ELSE LET destination == PduAddress_try_from(Slice(b, offset + 3, destination_end))
                         IN IF destination.res # "Ok" THEN destination
                            ELSE Pdu_try_from_tail(b, sca.val, PduFirstOctet_from(At(b, offset)),
                                                   At(b, offset + 1), destination.val,
                                                   destination_end)

----------------------------------------------------------------------------
(* SMS-SUBMIT PDUs serialised with Pdu::as_bytes and parsed back with      *)
(* Pdu::try_from.                                                          *)

\* Number of digits of the destination numbers.
MaxDigits == 3

PduAddress(ton, digits) ==
    [type_addr |-> [type_of_number |-> ton, numbering_plan_identification |-> "IsdnTelephone"],
     number |-> digits]

Pdu(sca, first_octet, message_id, destination, dcs, validity_period, user_data, user_data_len) ==
    [sca |-> sca, first_octet |-> first_octet, message_id |-> message_id,
     destination |-> destination, dcs |-> dcs, validity_period |-> validity_period,
     user_data |-> user_data, user_data_len |-> user_data_len]

\* The first octets of SMS-SUBMIT: every flag, every validity period format.
SubmitFirstOctets ==
    [mti : {"SmsSubmit"}, rd : BOOLEAN, srr : BOOLEAN, udhi : BOOLEAN, rp : BOOLEAN,
     vpf : DOMAIN VpFieldValidity]

\* The first octet Pdu::make_simple_message sets (pdu.rs 588-595), for a message without header.
SimpleFirstOctet ==
    [mti |-> "SmsSubmit", rd |-> FALSE, vpf |-> "Invalid", rp |-> FALSE, udhi |-> FALSE, srr |-> FALSE]

\* Every value of DataCodingScheme.
DataCodingSchemes ==
    { Standard(c, k, e) : c \in BOOLEAN, k \in DOMAIN MessageClass, e \in DOMAIN MessageEncoding }
    \cup { DcsReserved }
    \cup { MessageWaitingDiscard(w, t) : w \in BOOLEAN, t \in DOMAIN MessageWaitingType }
    \cup { MessageWaiting(w, t, u) : w \in BOOLEAN, t \in DOMAIN MessageWaitingType, u \in BOOLEAN }

DigitSequences == UNION { [1 .. n -> {0, 9}] : n \in 1 .. MaxDigits }

(* The PDUs: every first octet and validity period with one payload, and   *)
(* every data coding scheme, service centre, destination, message id and   *)
(* user data with the first octet of a simple message.  A PDU without a    *)
(* validity period field holds validity period 0.                          *)
PduInputs ==
    { Pdu(<<>>, fo, 0, PduAddress("International", <<4, 4, 7>>), Standard(FALSE, "StoreToNv", "Gsm7Bit"),
          vp, <<232, 50, 155, 253, 6>>, 5) :
        fo \in SubmitFirstOctets, vp \in {0, 167} }
    \cup
    { Pdu(sca, SimpleFirstOctet, id, PduAddress(ton, digits), dcs, 0, ud, Len(ud)) :
        sca \in {<<>>, <<PduAddress("International", <<4, 4, 7, 9>>)>>},
        id \in {0, 255},
        ton \in {"International", "Unknown"},
        digits \in DigitSequences,
        dcs \in DataCodingSchemes,
        ud \in {<<>>, <<200, 34>>} }

WellFormed(P) == P.first_octet.vpf = "Invalid" => P.validity_period = 0

PduInit ==
    /\ EngineInit
    /\ call = "Pdu::as_bytes" /\ arg \in { P \in PduInputs : WellFormed(P) } /\ ret = <<>>

Serialise ==
    /\ call = "Pdu::as_bytes"
    /\ ret' = <<Pdu_as_bytes(arg)>>
    /\ call' = "Pdu::try_from"
    /\ UNCHANGED << arg, engineVars >>

Parse ==
    /\ call = "Pdu::try_from"
    /\ ret' = Append(ret, Pdu_try_from(ret[1].bytes))
    /\ call' = "done"
    /\ UNCHANGED << arg, engineVars >>

SpecPdu == PduInit /\ [][Serialise \/ Parse]_vars

(* C14: PDU round trip.  For every well-formed SMS-SUBMIT P (any flags of  *)
(* the first octet, any validity period format and value, any data coding  *)
(* scheme, with or without service centre address, any destination),       *)
(* Pdu::try_from(P.as_bytes().0) is Ok with a value equal to P.            *)
C14_PduRoundTrip ==
    (call = "done" /\ arg \in PduInputs) => (ret[2].res = "Ok" /\ ret[2].val = arg)

----------------------------------------------------------------------------
(* gsm_encoding: texts encoded into message parts with encode_message and  *)
(* every part decoded with decode_message.  A text is a sequence of        *)
(* characters, a character its code point.                                 *)

\* Number of parts of the longest texts.
MaxParts == 3

(* gsm_encoding.rs 12-78: the 65 pairs <<character, septet>> of the        *)
(* default alphabet outside A-Z, a-z and 0-9.  No character and no septet  *)
(* is in two pairs, so that the order of the table plays no part.          *)
GSM_ENCODING_TABLE ==
    { <<64, 0>>, <<163, 1>>, <<36, 2>>, <<165, 3>>, <<232, 4>>, <<233, 5>>, <<249, 6>>,
      <<236, 7>>, <<242, 8>>, <<199, 9>>, <<10, 10>>, <<216, 11>>, <<248, 12>>, <<13, 13>>,
      <<197, 14>>, <<229, 15>>, <<916, 16>>, <<95, 17>>, <<934, 18>>, <<915, 19>>,
      <<923, 20>>, <<937, 21>>, <<928, 22>>, <<936, 23>>, <<931, 24>>, <<920, 25>>,
      <<926, 26>>, <<198, 28>>, <<230, 29>>, <<223, 30>>, <<201, 31>>, <<32, 32>>,
      <<33, 33>>, <<34, 34>>, <<35, 35>>, <<164, 36>>, <<37, 37>>, <<38, 38>>, <<39, 39>>,
      <<40, 40>>, <<41, 41>>, <<42, 42>>, <<43, 43>>, <<44, 44>>, <<45, 45>>, <<46, 46>>,
      <<47, 47>>, <<58, 58>>, <<59, 59>>, <<60, 60>>, <<61, 61>>, <<62, 62>>, <<63, 63>>,
      <<161, 64>>, <<196, 91>>, <<214, 92>>, <<209, 93>>, <<220, 94>>, <<167, 95>>,
      <<191, 96>>, <<228, 123>>, <<246, 124>>, <<241, 125>>, <<252, 126>>, <<224, 127>> }

(* gsm_encoding.rs 1-11: the 9 pairs <<character, septet>> of the          *)
(* extension table; the septet follows the escape septet 27.               *)
GSM_EXTENDED_ENCODING_TABLE ==
    { <<94, 20>>, <<123, 40>>, <<125, 41>>, <<92, 47>>, <<91, 60>>, <<126, 61>>, <<93, 62>>,
      <<124, 64>>, <<8364, 101>> }

AsciiAlphanumeric == (65 .. 90) \cup (97 .. 122) \cup (48 .. 57)

\* gsm_encoding/mod.rs 64-87: the septets pushed for b, or None
try_gsm_encode_char(b) ==
    IF b \in AsciiAlphanumeric THEN [some |-> TRUE, val |-> <<b>>]
    ELSE IF \E e \in GSM_ENCODING_TABLE : e[1] = b
    THEN [some |-> TRUE, val |-> <<(CHOOSE e \in GSM_ENCODING_TABLE : e[1] = b)[2]>>]
    ELSE IF \E e \in GSM_EXTENDED_ENCODING_TABLE : e[1] = b
    THEN [some |-> TRUE, val |-> <<27, (CHOOSE e \in GSM_EXTENDED_ENCODING_TABLE : e[1] = b)[2]>>]
    ELSE [some |-> FALSE, val |-> <<>>]

(* gsm_encoding/mod.rs 93-101: the iterations of the loop at the           *)
(* characters from..to in order, one half of them after the other; None    *)
(* is returned at the first character that has no encoding.                *)
RECURSIVE try_gsm_encode_string_loop(_, _, _, _)
try_gsm_encode_string_loop(input, from, to, rt) ==
    IF from > to THEN [some |-> TRUE, val |-> rt]
    ELSE IF from = to
    THEN LET c == try_gsm_encode_char(input[from])
         IN IF c.some THEN [some |-> TRUE, val |-> rt \o c.val] ELSE c
    ELSE LET mid == (from + to) \div 2
             half == try_gsm_encode_string_loop(input, from, mid, rt)
         IN IF ~half.some THEN half
            ELSE try_gsm_encode_string_loop(input, mid + 1, to, half.val)

try_gsm_encode_string(input) == try_gsm_encode_string_loop(input, 1, Len(input), <<>>)

(* UTF_16BE.encode(msg, EncoderTrap::Replace), for characters of the basic *)
(* plane: two octets for each of the characters from..to.                  *)
RECURSIVE UTF_16BE_encode_range(_, _, _)
UTF_16BE_encode_range(msg, from, to) ==
    IF from > to THEN <<>>
    ELSE IF from = to THEN <<msg[from] \div 256, msg[from] % 256>>
    ELSE LET mid == (from + to) \div 2
         IN UTF_16BE_encode_range(msg, from, mid) \o UTF_16BE_encode_range(msg, mid + 1, to)

UTF_16BE_encode(msg) == UTF_16BE_encode_range(msg, 1, Len(msg))

(* gsm_encoding/mod.rs 102-112: the loop takes max_len octets off the      *)
(* front of cbuf while max_len < cbuf.len(), n times in all, and what is   *)
(* left of cbuf (the whole of an empty buf) is pushed last.                *)
split_buffers(buf, max_len) ==
    LET n == IF Len(buf) = 0 THEN 0 ELSE (Len(buf) - 1) \div max_len
    IN [k \in 1 .. n + 1 |->
           SubSeq(buf, (k - 1) * max_len + 1, IF k <= n THEN k * max_len ELSE Len(buf))]

UdhComponent(id, data) == [id |-> id, data |-> data]

\* gsm_encoding/udh.rs 60-70: UserDataHeader::as_bytes
RECURSIVE UserDataHeader_components_bytes(_)
UserDataHeader_components_bytes(components) ==
    IF components = <<>> THEN <<>>
    ELSE LET comp == Head(components)
         IN <<comp.id, Len(comp.data) % 256>> \o comp.data
            \o UserDataHeader_components_bytes(Tail(components))

UserDataHeader_as_bytes(components) ==
    LET rt == UserDataHeader_components_bytes(components)
    IN <<Len(rt) % 256>> \o rt

(* gsm_encoding/udh.rs 72-98: TryFrom<&[u8]> for UserDataHeader, the loop   *)
(* from offset on; the result holds the components.                        *)
RECURSIVE UserDataHeader_try_from_loop(_, _, _)
UserDataHeader_try_from_loop(b, offset, rt) ==
    IF ~Get(b, offset) THEN Ok(rt)
    ELSE IF ~Get(b, offset + 1) THEN InvalidPdu("Offset check failed for: UDH component length")
    ELSE LET id == At(b, offset)
             len == At(b, offset + 1)
             end == offset + 1 + len + 1
         IN IF ~Get(b, end - 1) THEN InvalidPdu("Offset check failed for: UDH component data")
            ELSE UserDataHeader_try_from_loop(b, end,
                     Append(rt, UdhComponent(id, Slice(b, offset + 2, end))))

UserDataHeader_try_from(b) == UserDataHeader_try_from_loop(b, 0, <<>>)

\* gsm_encoding/udh.rs 39-58: the first concatenation component, or None (<<>>)
RECURSIVE get_concatenated_sms_data(_)
get_concatenated_sms_data(components) ==
    IF components = <<>> THEN <<>>
    ELSE LET comp == Head(components)
         IN IF comp.id = 0 /\ Len(comp.data) = 3
            THEN <<[reference |-> comp.data[1], parts |-> comp.data[2], sequence |-> comp.data[3]]>>
            ELSE IF comp.id = 8 /\ Len(comp.data) = 4
            THEN <<[reference |-> comp.data[1] * 256 + comp.data[2],
                    parts |-> comp.data[3], sequence |-> comp.data[4]]>>
            ELSE get_concatenated_sms_data(Tail(components))

GsmMessageData(encoding, udh, bytes, user_data_len) ==
    [encoding |-> encoding, udh |-> udh, bytes |-> bytes, user_data_len |-> user_data_len]

(* gsm_encoding/mod.rs 156 and 214: the fill bits between a header of len   *)
(* octets (the length octet included) and the first text septet.           *)
udh_padding(len) == 7 - ((len * 8) % 7)

(* gsm_encoding/mod.rs 203-223 and 241-258: the i-th part (i counted from  *)
(* 0) of a concatenated message, bufs the split septets or octets.  The    *)
(* sequence octet is `i as u8 + 1` (lines 210 and 251): for the 256th part *)
(* the sum overflows, which is a panic in a build with overflow checks (a  *)
(* debug build) and wraps to 0 in a build without them (a release build).  *)
encode_message_part(encoding, bufs, csms_ref, i, overflow_checks) ==
    LET num_parts == Len(bufs) % 256
        buf == bufs[i + 1]
        udh == UserDataHeader_as_bytes(
                   <<UdhComponent(0, <<csms_ref, num_parts, ((i % 256) + 1) % 256>>)>>)
    IN IF overflow_checks /\ i % 256 = 255
       THEN [res |-> "panic", val |-> "attempt to add with overflow"]
       ELSE IF encoding = "Gsm7Bit"
       THEN LET padding == udh_padding(Len(udh))
                len == ((Len(udh) * 8) + padding + (Len(buf) * 7)) \div 7
            IN GsmMessageData("Gsm7Bit", TRUE, udh \o encode_sms_7bit(buf, padding), len % 256)
       ELSE LET rt == udh \o buf
            IN GsmMessageData("Ucs2", TRUE, rt, Len(rt) % 256)

(* gsm_encoding/mod.rs 191-275; csms_ref is the value rand::random::<u8>() *)
(* gives, overflow_checks tells the build.  The parts are collected in     *)
(* order (lines 204 to 224, 245 to 259); a panic in the making of a part   *)
(* ends the call, and the panic alone stands for what it gives.            *)
encode_message(msg, csms_ref, overflow_checks) ==
    LET gsm == try_gsm_encode_string(msg)
        collect(encoding, bufs) ==
            IF overflow_checks /\ Len(bufs) > 255
            THEN <<encode_message_part(encoding, bufs, csms_ref, 255, overflow_checks)>>
            ELSE [i \in 1 .. Len(bufs) |->
                     encode_message_part(encoding, bufs, csms_ref, i - 1, overflow_checks)]
    IN IF gsm.some
       THEN IF Len(gsm.val) > 160
            THEN collect("Gsm7Bit", split_buffers(gsm.val, 153))
            ELSE <<GsmMessageData("Gsm7Bit", FALSE, encode_sms_7bit(gsm.val, 0), Len(gsm.val) % 256)>>
       ELSE LET buf == UTF_16BE_encode(msg)
            IN IF Len(buf) > 140
               THEN collect("Ucs2", split_buffers(buf, 134))
               ELSE <<GsmMessageData("Ucs2", FALSE, buf, Len(buf) % 256)>>

(* gsm_encoding/mod.rs 28-59: gsm_decode_string, the iterations of the     *)
(* loop over the septets from..to in order, one half of them after the     *)
(* other.  st holds ret and skip.  A septet that has no entry in the table *)
(* pushes nothing, and so does an escape (27) that is the last septet or   *)
(* is followed by a septet with no entry in the extended table; the septet *)
(* after such an escape is decoded as any other.                           *)
RECURSIVE gsm_decode_string_loop(_, _, _, _)
gsm_decode_string_loop(input, from, to, st) ==
    LET b == input[from]
        plain == { e \in GSM_ENCODING_TABLE : e[2] = b }
        extended == IF from < Len(input)
                    THEN { e \in GSM_EXTENDED_ENCODING_TABLE : e[2] = input[from + 1] }
                    ELSE {}
        push(entries) == IF entries = {} THEN st.ret ELSE Append(st.ret, (CHOOSE e \in entries : TRUE)[1])
    IN IF from > to THEN st
       ELSE IF from = to
       THEN IF st.skip THEN [ret |-> st.ret, skip |-> FALSE]
            ELSE IF b \in AsciiAlphanumeric THEN [ret |-> Append(st.ret, b), skip |-> FALSE]
            ELSE IF b = 27 THEN [ret |-> push(extended), skip |-> extended # {}]
            ELSE [ret |-> push(plain), skip |-> FALSE]
       ELSE LET mid == (from + to) \div 2
                half == gsm_decode_string_loop(input, from, mid, st)
            IN IF half.skip /\ mid + 1 = to THEN [ret |-> half.ret, skip |-> FALSE]
               ELSE gsm_decode_string_loop(input, mid + 1, to, half)

gsm_decode_string(input) ==
    gsm_decode_string_loop(input, 1, Len(input), [ret |-> <<>>, skip |-> FALSE]).ret

(* UTF_16BE.decode(octets, DecoderTrap::Replace): the 16-bit units, most   *)
(* significant octet first, from..to in order, one half of them after the  *)
(* other.  st holds the characters and the lead surrogate that waits for   *)
(* its trail.  A surrogate on its own is replaced by U+FFFD.               *)
RECURSIVE UTF_16BE_decode_units(_, _, _, _)
UTF_16BE_decode_units(octets, from, to, st) ==
    LET unit == octets[2 * from - 1] * 256 + octets[2 * from]
        flushed == IF st.lead = <<>> THEN st.ret ELSE Append(st.ret, 65533)
    IN IF from > to THEN st
       ELSE IF from = to
       THEN IF unit \in 56320 .. 57343
            THEN IF st.lead = <<>> THEN [ret |-> Append(st.ret, 65533), lead |-> <<>>]
                 ELSE [ret |-> Append(st.ret, 65536 + (st.lead[1] - 55296) * 1024 + (unit - 56320)),
                       lead |-> <<>>]
            ELSE IF unit \in 55296 .. 56319 THEN [ret |-> flushed, lead |-> <<unit>>]
            ELSE [ret |-> Append(flushed, unit), lead |-> <<>>]
       ELSE LET mid == (from + to) \div 2
                half == UTF_16BE_decode_units(octets, from, mid, st)
            IN IF half.lead = <<>>
               THEN UTF_16BE_decode_units(octets, mid + 1, to, [ret |-> half.ret, lead |-> <<>>])
               ELSE UTF_16BE_decode_units(octets, mid + 1, to, half)

\* An octet or a lead surrogate left over at the end is replaced by U+FFFD.
UTF_16BE_decode(octets) ==
    LET st == UTF_16BE_decode_units(octets, 1, Len(octets) \div 2, [ret |-> <<>>, lead |-> <<>>])
    IN IF st.lead # <<>> \/ Len(octets) % 2 = 1 THEN Append(st.ret, 65533) ELSE st.ret

(* gsm_encoding/mod.rs 144-185.  text holds the characters decoded: by     *)
(* gsm_decode_string from the septets decode_sms_7bit returns (lines 171   *)
(* to 173), or from the UTF-16 octets (line 179); udh holds the components *)
(* of the header, if there is one.                                         *)
DecodedMessage(text, udh) == [text |-> text, udh |-> udh]

decode_message_data(m, start, padding, udh) ==
    IF ~Get(m.bytes, start) THEN Ok(DecodedMessage(<<>>, udh))
    ELSE IF m.encoding = "Gsm7Bit"
    THEN Ok(DecodedMessage(
             gsm_decode_string(
                 decode_sms_7bit(Slice(m.bytes, start, Len(m.bytes)), padding, m.user_data_len)),
             udh))
    ELSE IF m.encoding = "Ucs2"
    THEN Ok(DecodedMessage(UTF_16BE_decode(Slice(m.bytes, start, Len(m.bytes))), udh))
    ELSE [res |-> "Err", val |-> "UnsupportedEncoding"]

decode_message(m) ==
    IF m.udh
    THEN IF Len(m.bytes) < 1 THEN InvalidPdu("UDHI specified, but no data")
         ELSE LET udhl == At(m.bytes, 0)
                  padding == udh_padding(udhl + 1)
                  start == udhl + 1
              IN IF Len(m.bytes) < start THEN InvalidPdu("UDHL goes past end of data")
                 ELSE LET udh == UserDataHeader_try_from(Slice(m.bytes, 1, start))
                      IN IF udh.res # "Ok" THEN udh
                         ELSE decode_message_data(m, start, padding, <<udh.val>>)
    ELSE decode_message_data(m, 0, 0, <<>>)

\* The characters of the texts: 'a', '1', '@', the euro sign, and a character outside the tables.
TextChars == {97, 49, 64, 8364, 20013}

(* The lengths of the texts: just over one message of 160 septets or 70    *)
(* UCS-2 characters, the 200 characters of the example, and the lengths    *)
(* around a whole number of parts of 153 septets or 67 characters.         *)
TextLengths ==
    {71, 161, 200}
    \cup { 153 * k + d : k \in 2 .. MaxParts - 1, d \in {0, 1} }
    \cup { 67 * k + d : k \in 2 .. MaxParts - 1, d \in {0, 1} }

\* A text of n characters: c2 at every third place, c1 elsewhere.
PatternText(n, c1, c2) == [i \in 1 .. n |-> IF i % 3 = 0 THEN c2 ELSE c1]

(* The texts of 256 parts, one more than the octets of the header count:   *)
(* 255 * 153 + 1 times 'a', and 255 * 67 + 1 times a character outside the *)
(* 7-bit alphabet.                                                         *)
LongTexts == { PatternText(255 * 153 + 1, 97, 97), PatternText(255 * 67 + 1, 20013, 20013) }

Texts ==
    { PatternText(n, c1, c2) : n \in TextLengths, c1 \in TextChars, c2 \in TextChars } \cup LongTexts

\* The values of the random reference.
Refs == {0, 77, 255}

ConcatInit ==
    /\ EngineInit
    /\ call = "encode_message" /\ arg \in Texts /\ ret = <<>>

Encode ==
    /\ call = "encode_message"
    /\ \E csms_ref \in Refs, overflow_checks \in BOOLEAN :
          /\ ret' = <<encode_message(arg, csms_ref, overflow_checks)>>
          /\ call' = IF "res" \in DOMAIN ret'[1][1] THEN "panicked" ELSE "decode_message"
    /\ UNCHANGED << arg, engineVars >>

Decode ==
    /\ call = "decode_message"
    /\ ret' = Append(ret, [i \in 1 .. Len(ret[1]) |-> decode_message(ret[1][i])])
    /\ call' = "done"
    /\ UNCHANGED << arg, engineVars >>

SpecConcat == ConcatInit /\ [][Encode \/ Decode]_vars

\* The septet stream of a text in the 7-bit alphabet, the UTF-16 octet stream of another.
Stream(T) ==
    IF try_gsm_encode_string(T).some THEN try_gsm_encode_string(T).val ELSE UTF_16BE_encode(T)

\* The size of a part: 153 septets, or 134 octets.
PartSize(T) == IF try_gsm_encode_string(T).some THEN 153 ELSE 134

Concatenated(T) ==
    IF try_gsm_encode_string(T).some THEN Len(Stream(T)) > 160 ELSE Len(Stream(T)) > 140

RECURSIVE Flatten(_)
Flatten(ss) ==
    IF Len(ss) = 0 THEN <<>>
    ELSE IF Len(ss) = 1 THEN ss[1]
    ELSE Flatten(SubSeq(ss, 1, Len(ss) \div 2)) \o Flatten(SubSeq(ss, (Len(ss) \div 2) + 1, Len(ss)))

(* The payload a part carries after its 6 header octets: the UCS-2 octets, *)
(* or the septets of GSM 03.38 packing, the k-th of them (from 0) being    *)
(* the 7 bits from bit 7k + 1 on of the octets after the header (1 fill    *)
(* bit brings the 48 header bits to a septet boundary), for the septets    *)
(* the user data length counts after the 7 septets of the header.          *)
Payload(part) ==
    LET data == SubSeq(part.bytes, 7, Len(part.bytes))
        bit(m) == IF m \div 8 < Len(data) THEN Bit(data[(m \div 8) + 1], m % 8) ELSE 0
        septet(k) ==
            bit(7 * k + 1) + 2 * bit(7 * k + 2) + 4 * bit(7 * k + 3) + 8 * bit(7 * k + 4)
            + 16 * bit(7 * k + 5) + 32 * bit(7 * k + 6) + 64 * bit(7 * k + 7)
    IN IF part.encoding = "Gsm7Bit"
       THEN [k \in 1 .. part.user_data_len - 7 |-> septet(k - 1)]
       ELSE data

(* C16: concatenation invariant.  For a text T of more than 160 septets    *)
(* (or more than 140 UCS-2 octets), encode_message gives n parts split at  *)
(* 153 septets (134 octets); the i-th part carries the concatenation       *)
(* header 05 00 03 R n i with the same reference R in every part; and the  *)
(* payloads of the parts, in order, make up the stream of T.               *)
C16_Concatenation ==
    (call = "done" /\ arg \in Texts /\ Concatenated(arg)) =>
        LET parts == ret[1]
            size == PartSize(arg)
            n == (Len(Stream(arg)) + size - 1) \div size
        IN /\ Len(parts) = n
           /\ \A i \in 1 .. Len(parts) :
                /\ parts[i].udh
                /\ SubSeq(parts[i].bytes, 1, 6) = <<5, 0, 3, parts[1].bytes[4], n, i>>
                /\ Len(Payload(parts[i])) =
                      IF i < n THEN size ELSE Len(Stream(arg)) - size * (n - 1)
           /\ Flatten([i \in 1 .. Len(parts) |-> Payload(parts[i])]) = Stream(arg)

(* gsm_encoding/mod.rs 155-156: decode_message reads the header's length   *)
(* octet udhl, any octet, and computes the padding from it.                *)
PaddingInit ==
    /\ EngineInit
    /\ call = "decode_message" /\ arg \in 0 .. 255 /\ ret = <<>>

SpecPadding ==
    /\ PaddingInit
    /\ [][/\ call = "decode_message"
          /\ ret' = <<udh_padding(arg + 1)>>
          /\ call' = "done"
          /\ UNCHANGED << arg, engineVars >>]_vars

(* C26: for every header length octet udhl, the padding lies in 0 .. 6,    *)
(* the paddings of the septet codec, and the header's (udhl + 1) * 8 bits  *)
(* with the padding make a whole number of septets.                        *)
C26_PaddingRange ==
    (call = "done" /\ arg \in 0 .. 255) =>
       /\ ret[1] \in 0 .. 6
       /\ ((arg + 1) * 8 + ret[1]) % 7 = 0

(* C27: message round trip.  decode_message succeeds on every part         *)
(* encode_message made of a text T, and the texts of the parts, put        *)
(* together in the order of the parts, are T: no character is lost and     *)
(* none is added.                                                          *)
C27_MessageRoundTrip ==
    (call = "done" /\ arg \in Texts) =>
       /\ \A i \in DOMAIN ret[2] : ret[2][i].res = "Ok"
       /\ Flatten([i \in DOMAIN ret[2] |-> ret[2][i].val.text]) = arg

----------------------------------------------------------------------------
(* pdu.rs: a simple SMS-SUBMIT built from a recipient and a body with      *)
(* PduAddress::from_str, encode_message and Pdu::make_simple_message, and  *)
(* serialised with Pdu::as_bytes.  A string is the sequence of its code    *)
(* points.                                                                 *)

\* pdu.rs 181-210: FromStr for PduAddress
PduAddress_from_str(st) ==
    LET RECURSIVE digits(_)
        digits(t) ==
            IF t = <<>> THEN <<>>
            ELSE (IF Head(t) \in 48 .. 57 THEN <<Head(t) - 48>> ELSE <<>>) \o digits(Tail(t))
        int == \E k \in 1 .. Len(st) : st[k] = 43
    IN PduAddress(IF int THEN "International" ELSE "Unknown", digits(st))

\* make_simple_message with a relative validity period format in the first octet
make_simple_message_relative(recipient, msg) ==
    Pdu(<<>>,
        [mti |-> "SmsSubmit", rd |-> FALSE, vpf |-> "Relative", rp |-> FALSE,
         udhi |-> msg.udh, srr |-> FALSE],
        0, recipient, Standard(FALSE, "StoreToNv", msg.encoding), 0,
        msg.bytes, msg.user_data_len)

\* pdu.rs 585-607
make_simple_message(recipient, msg) ==
    Pdu(<<>>,
        [mti |-> "SmsSubmit", rd |-> FALSE, vpf |-> "Invalid", rp |-> FALSE,
         udhi |-> msg.udh, srr |-> FALSE],
        0, recipient, Standard(FALSE, "StoreToNv", msg.encoding), 0,
        msg.bytes, msg.user_data_len)

\* "+447700900123" and "hello"
Recipient447700900123 == <<43, 52, 52, 55, 55, 48, 48, 57, 48, 48, 49, 50, 51>>
Hello == <<104, 101, 108, 108, 111>>

(* The recipients "+447700900123", "447700900123", "+44 7700 900123",      *)
(* "07700900123", "+1", "+15550100" and the bodies "hello", "", "a", "hi", *)
(* "Hello123", "hellohello", "h@" and "h" with a character outside the     *)
(* 7-bit alphabet.                                                         *)
SubmitInputs ==
    [recipient :
        {<<43, 52, 52, 55, 55, 48, 48, 57, 48, 48, 49, 50, 51>>,
     <<52, 52, 55, 55, 48, 48, 57, 48, 48, 49, 50, 51>>,
     <<43, 52, 52, 32, 55, 55, 48, 48, 32, 57, 48, 48, 49, 50, 51>>,
     <<48, 55, 55, 48, 48, 57, 48, 48, 49, 50, 51>>,
     <<43, 49>>,
     <<43, 49, 53, 53, 53, 48, 49, 48, 48>>},
     body :
        {<<104, 101, 108, 108, 111>>,
     <<>>,
     <<97>>,
     <<104, 105>>,
     <<72, 101, 108, 108, 111, 49, 50, 51>>,
     <<104, 101, 108, 108, 111, 104, 101, 108, 108, 111>>,
     <<104, 64>>,
     <<104, 20013>>}]

SubmitInit ==
    /\ EngineInit
    /\ call = "Pdu::make_simple_message" /\ arg \in SubmitInputs /\ ret = <<>>

\* The message of one part is made into a PDU for the recipient.
MakeSimpleMessage ==
    /\ call = "Pdu::make_simple_message"
    /\ \E csms_ref \in Refs, overflow_checks \in BOOLEAN :
         ret' = <<make_simple_message(PduAddress_from_str(arg.recipient),
                                      encode_message(arg.body, csms_ref, overflow_checks)[1])>>
    /\ call' = "Pdu::as_bytes"
    /\ UNCHANGED << arg, engineVars >>

\* The service centres "+4479" and "+447785016005".
ServiceCentres ==
    { PduAddress_from_str(<<43, 52, 52, 55, 57>>),
      PduAddress_from_str(<<43, 52, 52, 55, 55, 56, 53, 48, 49, 54, 48, 48, 53>>) }

\* pdu.rs 582-584: Pdu::set_sca
set_sca(P, sca) == [P EXCEPT !.sca = <<sca>>]

\* The caller gives the PDU a service centre before it is serialised.
SetSca ==
    /\ call = "Pdu::as_bytes"
    /\ \E sca \in ServiceCentres : ret' = <<set_sca(ret[1], sca)>>
    /\ UNCHANGED << call, arg, engineVars >>

AsBytes ==
    /\ call = "Pdu::as_bytes" /\ arg \in SubmitInputs
    /\ ret' = Append(ret, Pdu_as_bytes(ret[1]))
    /\ call' = "done"
    /\ UNCHANGED << arg, engineVars >>

SpecSubmit == SubmitInit /\ [][MakeSimpleMessage \/ SetSca \/ AsBytes]_vars

----------------------------------------------------------------------------
(* pdu.rs: SMS-DELIVER PDUs, and both parsers applied to truncated PDUs.   *)

\* pdu.rs 445-454: From<u8> for DeliverPduFirstOctet
DeliverPduFirstOctet_from(b) ==
    [mti |-> from_u8(MessageType, BitAnd(b, 3))[1],
     sri |-> BitAnd(b, 32) > 0,
     udhi |-> BitAnd(b, 64) > 0,
     rp |-> BitAnd(b, 64) > 0]

\* pdu.rs 465-469
reverse_byte(b) ==
    LET units == Shr(b, 4)
        tens == BitAnd(b, 15)
    IN (tens * 10) + units

\* pdu.rs 470-486: TryFrom<&[u8]> for SmscTimestamp
SmscTimestamp_try_from(b) ==
    IF Len(b) # 7 THEN InvalidPdu("SmscTimestamp must be 7 bytes long")
    ELSE Ok([year |-> reverse_byte(At(b, 0)), month |-> reverse_byte(At(b, 1)),
             day |-> reverse_byte(At(b, 2)), hour |-> reverse_byte(At(b, 3)),
             minute |-> reverse_byte(At(b, 4)), second |-> reverse_byte(At(b, 5)),
             timezone |-> reverse_byte(At(b, 6))])

(* pdu.rs 507-569: TryFrom<&[u8]> for DeliverPdu.  The fields after the     *)
(* originating address (537-566), from the offset of the protocol          *)
(* identifier on.                                                          *)
DeliverPdu_try_from_tail(b, sca, first_octet, originating_address, offset) ==
    IF ~Get(b, offset) THEN InvalidPdu("Offset check failed for: protocol identifier")
    ELSE IF ~Get(b, offset + 1) THEN InvalidPdu("Offset check failed for: data coding scheme")
    ELSE IF ~Get(b, offset + 2 + 6) THEN InvalidPdu("Offset check failed for: service center timestamp")
    ELSE LET dcs == DataCodingScheme_from(At(b, offset + 1))
             scts == SmscTimestamp_try_from(Slice(b, offset + 2, offset + 2 + 7))
             udl == offset + 2 + 7
         IN IF scts.res # "Ok" THEN scts
            ELSE IF ~Get(b, udl) THEN InvalidPdu("Offset check failed for: user data len")
            ELSE Ok([sca |-> sca, first_octet |-> first_octet,
                     originating_address |-> originating_address, dcs |-> dcs,
                     scts |-> scts.val,
                     user_data |-> IF Get(b, udl + 1) THEN Slice(b, udl + 1, Len(b)) ELSE <<>>,
                     user_data_len |-> At(b, udl)])

DeliverPdu_try_from(b) ==
    IF ~Get(b, 0) THEN Panicked     \* line 510: b[0]
    ELSE LET sca == Pdu_try_from_sca(b)     \* lines 510-519, the same as 612-621
             offset == At(b, 0) + 1
         IN IF sca.res # "Ok" THEN sca
            ELSE IF ~Get(b, offset) THEN InvalidPdu("Offset check failed for: first octet")
            ELSE IF ~Get(b, offset + 1)
            THEN InvalidPdu("Offset check failed for: originating address len")
            ELSE LET first_octet == DeliverPduFirstOctet_from(At(b, offset))
                     destination_len == At(b, offset + 1)
                     real_len == (destination_len \div 2) + 1
                     destination_end == offset + 2 + real_len
                 IN IF ~Get(b, destination_end - 1)
                    THEN InvalidPdu("Offset check failed for: originating address")
                    ELSE LET oa == PduAddress_try_from(Slice(b, offset + 2, destination_end))
                         IN IF oa.res # "Ok" THEN oa
                            ELSE DeliverPdu_try_from_tail(b, sca.val, first_octet, oa.val,
                                     offset + 2 + real_len
                                     + (IF oa.val.type_addr.type_of_number = "Gsm" THEN 1 ELSE 0))

\* Length of the short octet sequences parsed.
MaxOctets == 2

(* A valid SMS-SUBMIT with a service centre address and a relative         *)
(* validity period, and a valid SMS-DELIVER: to +447700900123, "hello".    *)
ValidSubmit ==
    <<7, 145, 68, 119, 88, 16, 6, 80>> \o <<17, 0, 12, 145, 68, 119, 0, 9, 16, 50, 0, 17, 167, 5>>
    \o <<232, 50, 155, 253, 6>>
ValidDeliver ==
    <<7, 145, 68, 119, 88, 16, 6, 80>> \o <<4, 12, 145, 68, 119, 0, 9, 16, 50, 0, 0>>
    \o <<98, 1, 3, 33, 67, 101, 0>> \o <<5, 232, 50, 155, 253, 6>>

\* Every truncation of the valid PDUs, the empty sequence among them, and every short sequence.
Truncations ==
    { SubSeq(ValidSubmit, 1, n) : n \in 0 .. Len(ValidSubmit) }
    \cup { SubSeq(ValidDeliver, 1, n) : n \in 0 .. Len(ValidDeliver) }
    \cup UNION { [1 .. n -> {0, 1, 255}] : n \in 0 .. MaxOctets }

TruncatedInit ==
    /\ EngineInit
    /\ call = "Pdu::try_from" /\ arg \in Truncations /\ ret = <<>>

ParseSubmit ==
    /\ call = "Pdu::try_from" /\ arg \in Truncations
    /\ ret' = <<Pdu_try_from(arg)>>
    /\ call' = "DeliverPdu::try_from"
    /\ UNCHANGED << arg, engineVars >>

ParseDeliver ==
    /\ call = "DeliverPdu::try_from"
    /\ ret' = Append(ret, DeliverPdu_try_from(arg))
    /\ call' = "done"
    /\ UNCHANGED << arg, engineVars >>

SpecTruncated == TruncatedInit /\ [][ParseSubmit \/ ParseDeliver]_vars

(* C18: for every octet sequence b, the empty sequence and the truncations *)
(* of a valid PDU included, Pdu::try_from(b) and DeliverPdu::try_from(b)   *)
(* return Ok or Err(InvalidPdu(reason)): neither panics.                   *)
C18_NoPanic ==
    (call = "done" /\ arg \in Truncations) =>
        /\ ret[1].res \in {"Ok", "Err"}
        /\ ret[2].res \in {"Ok", "Err"}

----------------------------------------------------------------------------
(* parse.rs: parse_value applied to the display form of AT values.  A      *)
(* string is the sequence of its code points; a parser returns the rest of *)
(* the input with its value, or fails: alt_complete! (116) takes the       *)
(* first alternative that is Done, an Error or an Incomplete alike being a *)
(* failure.                                                                *)

\* Number of values in an array.
MaxValues == 2

(* at.rs 61-78: a value of the variant t.  n holds the number(s) or the    *)
(* characters of a String, Integer, Range or Unknown, e the elements of an *)
(* Array or BracketedArray.                                                *)
AtValue(t, v) ==
    IF t \in {"Array", "BracketedArray"}
    THEN [t |-> t, n |-> <<>>, e |-> v]
    ELSE [t |-> t, n |-> v, e |-> <<>>]

\* at.rs 129-155: Display for AtValue
RECURSIVE AtValue_fmt(_)
AtValue_fmt(val) ==
    LET RECURSIVE decimal(_)
        decimal(n) == IF n < 10 THEN <<48 + n>> ELSE Append(decimal(n \div 10), 48 + (n % 10))
        RECURSIVE joined(_, _)
        joined(vs, i) ==
            IF i > Len(vs) THEN <<>>
            ELSE (IF i = 1 THEN <<>> ELSE <<44>>) \o AtValue_fmt(vs[i]) \o joined(vs, i + 1)
    IN CASE val.t = "String" -> <<34>> \o val.n \o <<34>>
         [] val.t = "Integer" -> decimal(val.n[1])
         [] val.t = "Range" -> decimal(val.n[1]) \o <<45>> \o decimal(val.n[2])
         [] val.t = "Unknown" -> val.n
         [] val.t = "Empty" -> <<>>
         [] val.t = "BracketedArray" -> <<40>> \o joined(val.e, 1) \o <<41>>
         [] val.t = "Array" -> joined(val.e, 1)

ParseDone(rest, o) == [ok |-> TRUE, rest |-> rest, o |-> o]
ParseFailed == [ok |-> FALSE, rest |-> <<>>, o |-> <<>>]

(* parse.rs 8-19: a quote, take_until!("\""), a quote; what is between them *)
(* is decoded by ASCII.decode(data, DecoderTrap::Replace) (line 15), which *)
(* gives U+FFFD for every octet of 128 or more.                            *)
parse_string(i) ==
    IF i = <<>> \/ Head(i) # 34 \/ ~\E k \in 2 .. Len(i) : i[k] = 34 THEN ParseFailed
    ELSE LET k == CHOOSE k \in 2 .. Len(i) : i[k] = 34 /\ \A j \in 2 .. k - 1 : i[j] # 34
             data == SubSeq(i, 2, k - 1)
         IN ParseDone(SubSeq(i, k + 1, Len(i)),
                      [j \in DOMAIN data |-> IF data[j] < 128 THEN data[j] ELSE 65533])

(* parse.rs 45-55: many1!(one_of!("0123456789")), then str::parse::<u32>,  *)
(* which fails for a number of 2^32 or more.                               *)
parse_integer(i) ==
    LET n == CHOOSE n \in 0 .. Len(i) :
                 /\ \A j \in 1 .. n : i[j] \in 48 .. 57
                 /\ n < Len(i) => i[n + 1] \notin 48 .. 57
        RECURSIVE value(_)
        value(k) == IF k = 0 THEN 0 ELSE 10 * value(k - 1) + (i[k] - 48)
    IN IF n = 0 \/ value(n) \div 2^16 >= 2^16 THEN ParseFailed
       ELSE ParseDone(SubSeq(i, n + 1, Len(i)), value(n))

\* parse.rs 56-63
parse_range(i) ==
    LET i1 == parse_integer(i)
    IN IF ~i1.ok \/ i1.rest = <<>> THEN ParseFailed
       ELSE IF Head(i1.rest) # 45 THEN ParseFailed
       ELSE LET i2 == parse_integer(Tail(i1.rest))
            IN IF ~i2.ok THEN ParseFailed ELSE ParseDone(i2.rest, <<i1.o, i2.o>>)

\* parse.rs 64-71: many1!(none_of!(","))
parse_unknown(i) ==
    LET n == CHOOSE n \in 0 .. Len(i) :
                 /\ \A j \in 1 .. n : i[j] # 44
                 /\ n < Len(i) => i[n + 1] = 44
    IN IF n = 0 THEN ParseFailed ELSE ParseDone(SubSeq(i, n + 1, Len(i)), SubSeq(i, 1, n))

RECURSIVE parse_value(_)
RECURSIVE parse_bracketed_array(_)
RECURSIVE parse_single_value(_)

(* parse.rs 72-95: the first value, then many0! of a comma and a value,    *)
(* which stops at the end of the input or where no comma follows.          *)
parse_value(i) ==
    LET RECURSIVE others(_)
        others(rest) ==
            IF rest = <<>> \/ Head(rest) # 44 THEN ParseDone(rest, <<>>)
            ELSE LET one == parse_single_value(Tail(rest))
                     more == others(one.rest)
                 IN ParseDone(more.rest, <<one.o>> \o more.o)
        first == parse_single_value(i)
        tail == others(first.rest)
    IN IF Len(tail.o) = 0 THEN ParseDone(tail.rest, first.o)
       ELSE ParseDone(tail.rest, AtValue("Array", <<first.o>> \o tail.o))

(* parse.rs 96-111: "(", parse_value on what take_until!(")") takes (what  *)
(* it leaves of that is dropped by flat_map!), ")".                        *)
parse_bracketed_array(i) ==
    IF i = <<>> \/ Head(i) # 40 \/ ~\E k \in 2 .. Len(i) : i[k] = 41 THEN ParseFailed
    ELSE LET k == CHOOSE k \in 2 .. Len(i) : i[k] = 41 /\ \A j \in 2 .. k - 1 : i[j] # 41
             v == parse_value(SubSeq(i, 2, k - 1)).o
         IN ParseDone(SubSeq(i, k + 1, Len(i)),
                CASE v.t = "Array" -> AtValue("BracketedArray", v.e)
                  [] v.t = "Empty" -> AtValue("BracketedArray", <<>>)
                  [] OTHER -> AtValue("BracketedArray", <<v>>))

\* parse.rs 115-124; the last alternative, parse_empty (112-114), takes nothing
parse_single_value(i) ==
    LET b == parse_bracketed_array(i)
        s == parse_string(i)
        r == parse_range(i)
        n == parse_integer(i)
        u == parse_unknown(i)
    IN IF b.ok THEN b
       ELSE IF s.ok THEN ParseDone(s.rest, AtValue("String", s.o))
       ELSE IF r.ok THEN ParseDone(r.rest, AtValue("Range", r.o))
       ELSE IF n.ok THEN ParseDone(n.rest, AtValue("Integer", <<n.o>>))
       ELSE IF u.ok THEN ParseDone(u.rest, AtValue("Unknown", u.o))
       ELSE ParseDone(i, AtValue("Empty", <<>>))

(* The tokens: 3, 15, 0-3, "GSM", the empty token, the barewords invalid   *)
(* and 15a, and the parenthesised lists (), (0-1), (0-2,15) and ("GSM").   *)
Tokens ==
    LET gsm == AtValue("String", <<71, 83, 77>>)
    IN { AtValue("Integer", <<3>>), AtValue("Integer", <<15>>), AtValue("Range", <<0, 3>>), gsm,
         AtValue("Empty", <<>>),
         AtValue("Unknown", <<105, 110, 118, 97, 108, 105, 100>>),
         AtValue("Unknown", <<49, 53, 97>>),
         AtValue("BracketedArray", <<>>),
         AtValue("BracketedArray", <<AtValue("Range", <<0, 1>>)>>),
         AtValue("BracketedArray", <<AtValue("Range", <<0, 2>>), AtValue("Integer", <<15>>)>>),
         AtValue("BracketedArray", <<gsm>>) }

\* One token, or an array of two or more.
Values ==
    Tokens \cup { AtValue("Array", vs) : vs \in UNION { [1 .. n -> Tokens] : n \in 2 .. MaxValues } }

ValueInit ==
    /\ EngineInit
    /\ call = "parse_value" /\ arg \in Values /\ ret = <<>>

ParseValue ==
    /\ call = "parse_value"
    /\ ret' = <<parse_value(AtValue_fmt(arg))>>
    /\ call' = "done"
    /\ UNCHANGED << arg, engineVars >>

SpecValue == ValueInit /\ [][ParseValue]_vars

(* C20: parse_value applied to a list of two or more tokens separated by   *)
(* commas consumes the whole input and returns the Array of the parses of  *)
(* the tokens: digits give Integer, N-M Range, quoted text String, an      *)
(* empty token Empty, any other bareword Unknown, a parenthesised list the *)
(* BracketedArray of its elements; a single token is returned unwrapped.   *)
C20_ParseValue ==
    (call = "done" /\ arg \in Values) => (ret[1].rest = <<>> /\ ret[1].o = arg)


----------------------------------------------------------------------------
(* pdu.rs: well-formed SMS-DELIVER PDUs.  In order: the service centre     *)
(* address (its length in octets first, 0 for none), the first octet, the  *)
(* originating address (the number of digits, the type octet, the digits   *)
(* two to an octet with a filler nybble F after an odd number of them),    *)
(* the protocol identifier, the data coding scheme, the 7 octets of the    *)
(* service centre timestamp, the user data length and the user data.       *)
DeliverPdus ==
    { sca \o <<4, Len(digits), 145>> \o PhoneNumber_as_bytes(digits) \o <<pid, dcs>>
          \o <<98, 1, 3, 33, 67, 101, 0>> \o <<Len(ud)>> \o ud :
        sca \in {<<0>>, <<7, 145, 68, 119, 88, 16, 6, 80>>},
        digits \in DigitSequences,
        pid \in {0, 127},
        dcs \in {0, 8},
        ud \in {<<>>, <<232, 50, 155, 253, 6>>} }

DeliverInit ==
    /\ EngineInit
    /\ call = "DeliverPdu::try_from" /\ arg \in DeliverPdus /\ ret = <<>>

SpecDeliver == DeliverInit /\ [][ParseDeliver]_vars

(* C25: the length octet N of the originating address counts digits.  For  *)
(* every well-formed SMS-DELIVER, N even or odd, DeliverPdu::try_from      *)
(* takes the type octet and the ceil(N/2) digit octets as the address, and *)
(* reads the data coding scheme, the timestamp, the user data length and   *)
(* the user data from the octets that follow the protocol identifier.      *)
C25_DeliverOffsets ==
    (call = "done" /\ arg \in DeliverPdus) =>
       LET oa == arg[1] + 3            \* where the length octet N is
           N == arg[oa]
           pid == oa + 2 + ((N + 1) \div 2)
       IN /\ ret[1].res = "Ok"
          /\ Len(ret[1].val.originating_address.number) = N
          /\ ret[1].val.originating_address.number =
                SubSeq(PhoneNumber_from(SubSeq(arg, oa + 2, pid - 1)), 1, N)
          /\ ret[1].val.dcs = DataCodingScheme_from(arg[pid + 1])
          /\ ret[1].val.scts = SmscTimestamp_try_from(SubSeq(arg, pid + 2, pid + 8)).val
          /\ ret[1].val.user_data_len = arg[pid + 9]
          /\ ret[1].val.user_data = SubSeq(arg, pid + 10, Len(arg))


----------------------------------------------------------------------------
(* codec.rs and parse.rs: the decoder of the framed stream.  A buffer is a *)
(* sequence of octets; 13 is CR, 10 LF, 32 a space, 58 a colon.  A parser  *)
(* of nom gives Done with the rest and the output, Error or Incomplete.    *)

\* Number of octets the modem sends.
MaxWire == 5

NomDone(rest, o) == [res |-> "Done", rest |-> rest, o |-> o]

IsPrefix(t, i) == Len(t) <= Len(i) /\ SubSeq(i, 1, Len(t)) = t

(* std::str::from_utf8(s) is Ok: s is made of well-formed UTF-8 sequences  *)
(* (no overlong form, no surrogate, nothing above U+10FFFF).               *)
from_utf8_is_ok(s) ==
    LET cont(k) == k <= Len(s) /\ s[k] \in 128 .. 191
        second(k, range) == k <= Len(s) /\ s[k] \in range
        RECURSIVE walk(_)
        walk(k) ==
            IF k > Len(s) THEN TRUE
            ELSE IF s[k] < 128 THEN walk(k + 1)
            ELSE IF s[k] \in 194 .. 223 THEN cont(k + 1) /\ walk(k + 2)
            ELSE IF s[k] = 224 THEN second(k + 1, 160 .. 191) /\ cont(k + 2) /\ walk(k + 3)
            ELSE IF s[k] = 237 THEN second(k + 1, 128 .. 159) /\ cont(k + 2) /\ walk(k + 3)
            ELSE IF s[k] \in 225 .. 239 THEN cont(k + 1) /\ cont(k + 2) /\ walk(k + 3)
            ELSE IF s[k] = 240
            THEN second(k + 1, 144 .. 191) /\ cont(k + 2) /\ cont(k + 3) /\ walk(k + 4)
            ELSE IF s[k] \in 241 .. 243
            THEN cont(k + 1) /\ cont(k + 2) /\ cont(k + 3) /\ walk(k + 4)
            ELSE IF s[k] = 244
            THEN second(k + 1, 128 .. 143) /\ cont(k + 2) /\ cont(k + 3) /\ walk(k + 4)
            ELSE FALSE
    IN walk(1)

(* str::trim (parse.rs 180, cmd/sms.rs 197 and 199) on the UTF-8 octets of *)
(* a string: the characters with the property White_Space are taken off   *)
(* both ends: U+0009 to U+000D, U+0020, U+0085, U+00A0, U+1680, U+2000 to  *)
(* U+200A, U+2028, U+2029, U+202F, U+205F and U+3000.                      *)
str_trim(st) ==
    LET white == { <<c>> : c \in (9 .. 13) \cup {32} }
                 \cup { <<194, 133>>, <<194, 160>>, <<225, 154, 128>> }
                 \cup { <<226, 128, c>> : c \in (128 .. 138) \cup {168, 169, 175} }
                 \cup { <<226, 129, 159>>, <<227, 128, 128>> }
        leading(t) == { w \in white : IsPrefix(w, t) }
        trailing(t) == { w \in white : Len(w) <= Len(t) /\ SubSeq(t, Len(t) - Len(w) + 1, Len(t)) = w }
        RECURSIVE trim_start(_)
        trim_start(t) ==
            IF leading(t) = {} THEN t
            ELSE trim_start(SubSeq(t, Len(CHOOSE w \in leading(t) : TRUE) + 1, Len(t)))
        RECURSIVE trim_end(_)
        trim_end(t) ==
            IF trailing(t) = {} THEN t
            ELSE trim_end(SubSeq(t, 1, Len(t) - Len(CHOOSE w \in trailing(t) : TRUE)))
    IN trim_end(trim_start(st))

\* nom::not_line_ending: up to the first CR or LF; a CR has to be followed by LF
not_line_ending(i) ==
    LET at == { k \in DOMAIN i : i[k] \in {13, 10} }
        p == CHOOSE k \in at : \A l \in at : k <= l
    IN IF at = {} THEN NomDone(<<>>, i)
       ELSE IF i[p] = 13 /\ p = Len(i) THEN [res |-> "Incomplete", rest |-> <<>>, o |-> <<>>]
       ELSE IF i[p] = 13 /\ i[p + 1] # 10 THEN [res |-> "Error", rest |-> <<>>, o |-> <<>>]
       ELSE NomDone(SubSeq(i, p, Len(i)), SubSeq(i, 1, p - 1))

\* nom::line_ending: LF, or CR LF
line_ending(i) ==
    IF i = <<>> \/ i = <<13>> THEN [res |-> "Incomplete", rest |-> <<>>, o |-> <<>>]
    ELSE IF i[1] = 10 THEN NomDone(Tail(i), <<10>>)
    ELSE IF i[1] = 13 /\ i[2] = 10 THEN NomDone(Tail(Tail(i)), <<13, 10>>)
    ELSE [res |-> "Error", rest |-> <<>>, o |-> <<>>]

(* parse.rs 125-136: param up to the first colon, the colon, a space if    *)
(* there is one, parse_value.  Incomplete (nothing after the colon) counts *)
(* as a failure in alt_complete!.  The closure at line 134 unwraps         *)
(* from_utf8(param): a param that is not UTF-8 is a panic.                 *)
parse_information_response(i) ==
    LET at == { k \in DOMAIN i : i[k] = 58 }
        p == CHOOSE k \in at : \A l \in at : k <= l
        after == SubSeq(i, p + 1, Len(i))
        done(response) ==
            NomDone(response.rest, <<[kind |-> "InformationResponse",
                                      name |-> SubSeq(i, 1, p - 1), value |-> response.o]>>)
    IN IF at = {} \/ p = Len(i) THEN [res |-> "Error", rest |-> <<>>, o |-> <<>>]
       ELSE IF ~from_utf8_is_ok(SubSeq(i, 1, p - 1)) THEN [res |-> "Panic", rest |-> <<>>, o |-> <<>>]
       ELSE done(parse_value(IF after[1] = 32 THEN Tail(after) ELSE after))

(* parse.rs 137-169: the result codes.  The name of a result code is the   *)
(* text of its tag; CME and CMS errors are information responses with the  *)
(* param +CME ERROR or +CMS ERROR and an integer (for CMS, also a          *)
(* bareword).  info is what parse_information_response gives on i, which   *)
(* the last alternative applies (line 148).                                *)
parse_response_code(i, info) ==
    LET tags == << <<79, 75>>, <<67, 79, 78, 78, 69, 67, 84>>, <<82, 73, 78, 71>>,
                   <<78, 79, 32, 67, 65, 82, 82, 73, 69, 82>>, <<69, 82, 82, 79, 82>>,
                   <<78, 79, 32, 68, 73, 65, 76, 84, 79, 78, 69>>, <<66, 85, 83, 89>>,
                   <<78, 79, 32, 65, 78, 83, 87, 69, 82>>,
                   <<67, 79, 77, 77, 65, 78, 68, 32, 78, 79, 84, 32, 83, 85, 80, 80, 79, 82, 84>>,
                   <<84, 79, 79, 32, 77, 65, 78, 89, 32, 80, 65, 82, 65, 77, 69, 84, 69, 82, 83>> >>
        cme == <<43, 67, 77, 69, 32, 69, 82, 82, 79, 82>>
        cms == <<43, 67, 77, 83, 32, 69, 82, 82, 79, 82>>
        tagged(t) ==
            NomDone(SubSeq(i, Len(t) + 1, Len(i)),
                    <<[kind |-> "ResultCode", name |-> t, value |-> AtValue("Empty", <<>>)]>>)
        pick(hit) ==
            IF hit # {} THEN tagged(tags[CHOOSE k \in hit : \A l \in hit : k <= l])
            ELSE IF info.res = "Panic" THEN info
            ELSE IF /\ info.res = "Done"
                    /\ \/ info.o[1].name = cme /\ info.o[1].value.t = "Integer"
                       \/ info.o[1].name = cms /\ info.o[1].value.t \in {"Integer", "Unknown"}
            THEN NomDone(info.rest, <<[info.o[1] EXCEPT !.kind = "ResultCode"]>>)
            ELSE [res |-> "Error", rest |-> <<>>, o |-> <<>>]
    IN pick({ k \in DOMAIN tags : IsPrefix(tags[k], i) })

(* parse.rs 170-187: a result code, or an information response, or the     *)
(* text of the line, which has to be UTF-8, without the white space around *)
(* it, if any is left (lines 179-183).                                     *)
parse_response_line(i) ==
    LET unknown(st) ==
            IF from_utf8_is_ok(i) /\ Len(st) # 0
            THEN NomDone(<<>>, <<[kind |-> "Unknown", name |-> st, value |-> AtValue("Empty", <<>>)]>>)
            ELSE [res |-> "Error", rest |-> <<>>, o |-> <<>>]
        pick(code, info) ==
            IF code.res \in {"Done", "Panic"} THEN code
            ELSE IF info.res = "Done" THEN info
            ELSE unknown(str_trim(i))
        alt(info) == pick(parse_response_code(i, info), info)
    IN alt(parse_information_response(i))

(* parse.rs 191-194: terminated!(opt!(flat_map!(not_line_ending,           *)
(* parse_response_line)), line_ending).  opt! turns an error into None     *)
(* with nothing consumed; o is <<>> for None and <<line>> for Some(line).  *)
(* A panic in parse_response_line ends the call.                           *)
response_line_ending(i) ==
    LET terminated(body, o, le) ==
            IF body.res = "Incomplete" THEN body
            ELSE IF le.res # "Done" THEN le
            ELSE NomDone(le.rest, o)
        opt(body, line) ==
            IF body.res = "Done" /\ line.res = "Panic" THEN line
            ELSE IF body.res = "Done" /\ line.res = "Done"
            THEN terminated(body, line.o, line_ending(body.rest))
            ELSE terminated(body, <<>>, line_ending(i))
        flat_map(body) == opt(body, parse_response_line(body.o))
    IN flat_map(not_line_ending(i))

(* parse.rs 188-200: many1! of the above, the None results dropped.  The   *)
(* first line has to parse; after it, many1! stops at the end of the input *)
(* or at an error, and gives Incomplete when a further line is incomplete. *)
responses(i) ==
    LET RECURSIVE many1(_, _, _)
        many1(input, res, first) ==
            LET again(next) ==
                    IF next.res = "Error" THEN (IF first THEN next ELSE NomDone(input, res))
                    ELSE IF next.res \in {"Incomplete", "Panic"} THEN next
                    ELSE many1(next.rest, res \o next.o, FALSE)
            IN IF ~first /\ input = <<>> THEN NomDone(input, res)
               ELSE again(response_line_ending(input))
    IN many1(i, <<>>, TRUE)

\* AtCodec::decode with the lines parsed taken off the buffer also when all of them are empty.
AtCodec_decode_eager(src) ==
    LET split(parsed) ==
            IF parsed.res = "Done"
            THEN [res |-> IF parsed.o = <<>> THEN "None" ELSE "Some", item |-> parsed.o,
                  src |-> parsed.rest]
            ELSE [res |-> IF parsed.res = "Error" THEN "Err"
                          ELSE IF parsed.res = "Panic" THEN "Panic" ELSE "None",
                  item |-> <<>>, src |-> src]
    IN split(responses(src))

\* codec.rs 16-32: AtCodec::decode; src is the buffer after the call
AtCodec_decode(src) ==
    LET split(parsed) ==
            IF parsed.res = "Done" /\ parsed.o # <<>>
            THEN [res |-> "Some", item |-> parsed.o, src |-> parsed.rest]
            ELSE [res |-> IF parsed.res = "Error" THEN "Err"
                          ELSE IF parsed.res = "Panic" THEN "Panic" ELSE "None",
                  item |-> <<>>, src |-> src]
    IN split(responses(src))

(* The framed stream: the octets the modem sends (arg) come into the       *)
(* buffer a few at a time, and decode is called on the buffer until it     *)
(* fails.  ret is what the last call returned, with the buffer.  The       *)
(* octets are O, K, a colon, a space, a form feed, CR and LF.              *)
CodecInit ==
    /\ EngineInit
    /\ call = "read"
    /\ arg \in UNION { [1 .. n -> {79, 75, 58, 32, 12, 13, 10}] : n \in 1 .. MaxWire }
    /\ ret = [res |-> "None", item |-> <<>>, src |-> <<>>]

SpecCodec ==
    /\ CodecInit
    /\ [][\/ \E n \in 1 .. Len(arg) :
                /\ ret.res \notin {"Err", "Panic"}
                /\ ret' = [ret EXCEPT !.src = @ \o SubSeq(arg, 1, n)]
                /\ arg' = SubSeq(arg, n + 1, Len(arg))
                /\ call' = "read"
                /\ UNCHANGED engineVars
          \/ /\ ret.res \notin {"Err", "Panic"}
             /\ ret' = AtCodec_decode(ret.src)
             /\ call' = "decode"
             /\ UNCHANGED << arg, engineVars >>]_vars

(* C24: a call of decode that returns no item leaves the buffer as it was; *)
(* a call that returns a list returns at least one response and takes off  *)
(* the front of the buffer the octets the responses were parsed from, whole *)
(* lines, keeping the rest for the next call.                              *)
C24_DecodeFrame ==
    [][call' = "decode" =>
         /\ ret'.res \in {"None", "Err"} => (ret'.src = ret.src /\ ret'.item = <<>>)
         /\ ret'.res = "Some" =>
               /\ ret'.item # <<>>
               /\ \E n \in 1 .. Len(ret.src) :
                     /\ ret.src = SubSeq(ret.src, 1, n) \o ret'.src
                     /\ ret.src[n] = 10
                     /\ responses(SubSeq(ret.src, 1, n)) = NomDone(<<>>, ret'.item)
                     /\ responses(ret.src).rest = ret'.src]_vars

\* C24 witness: decode returned the result code OK and kept the octets after its line, which do not parse
C24_Witness ==
    /\ call = "decode" /\ ret.res = "Some" /\ ret.src # <<>>
    /\ Len(ret.item) = 1 /\ ret.item[1].kind = "ResultCode" /\ ret.item[1].name = <<79, 75>>

----------------------------------------------------------------------------
(* cmd/sms.rs 174-214: list_sms_pdu on the packet that answers AT+CMGL.  A *)
(* line of the packet has a kind and a name as in the engine, the value of *)
(* an information response, and the text st of an unknown line.            *)

\* Number of lines in a listing.
MaxList == 4

\* pdu.rs 699-707: Display for HexData, two upper-case hex digits an octet
HexData_fmt(b) ==
    LET hex(d) == IF d < 10 THEN 48 + d ELSE 55 + d
        RECURSIVE write(_)
        write(k) ==
            IF k > Len(b) THEN <<>> ELSE <<hex(b[k] \div 16), hex(b[k] % 16)>> \o write(k + 1)
    IN write(1)

(* pdu.rs 708-722: HexData::decode.  The text is cut in chunks of two      *)
(* characters, a last one of one character if the length is odd, and each  *)
(* is read by u8::from_str_radix(_, 16): hex digits of either case, after  *)
(* an optional plus sign.                                                  *)
HexData_decode(data) ==
    LET digit(c) == IF c \in 48 .. 57 THEN c - 48
                    ELSE IF c \in 65 .. 70 THEN c - 55
                    ELSE IF c \in 97 .. 102 THEN c - 87
                    ELSE 16
        chunk(k) == SubSeq(data, 2 * k - 1, IF 2 * k <= Len(data) THEN 2 * k ELSE Len(data))
        digits(x) == IF Len(x) > 1 /\ x[1] = 43 THEN Tail(x) ELSE x
        valid(x) == \A j \in DOMAIN digits(x) : digit(digits(x)[j]) < 16
        radix(x) == IF Len(x) = 1 THEN digit(x[1]) ELSE 16 * digit(x[1]) + digit(x[2])
        n == (Len(data) + 1) \div 2
    IN IF \A k \in 1 .. n : valid(chunk(k))
       THEN Ok([k \in 1 .. n |-> radix(digits(chunk(k)))])
       ELSE InvalidPdu("invalid hex string")

\* util.rs 8-17 on cmd/sms.rs 22-41: MessageStatus::from_integer
MessageStatus_from_integer(i) ==
    IF i \in 0 .. 4
    THEN Ok(<<"ReceivedUnread", "ReceivedRead", "StoredUnsent", "StoredSent", "All">>[i + 1])
    ELSE InvalidPdu("ValueOutOfRange")

\* list_sms_pdu with the pending +CMGL line kept after it has been used.
list_sms_pdu_kept(pkt) ==
    LET RECURSIVE walk(_, _, _)
        walk(k, pending, list) ==
            LET resp == pkt.responses[k]
                e == resp.value.e
                stat == MessageStatus_from_integer(e[2].n[1])
                hex == HexData_decode(str_trim(resp.st))
                pdu == DeliverPdu_try_from(hex.val)
            IN IF k > Len(pkt.responses) THEN Ok(list)
               ELSE IF resp.kind = "InformationResponse"
               THEN IF resp.name # "+CMGL" THEN Panicked
                    ELSE IF resp.value.t # "Array" THEN InvalidPdu("TypeMismatch")
                    ELSE IF Len(e) < 1 \/ e[1].t # "Integer" THEN InvalidPdu("TypeMismatch")
                    ELSE IF Len(e) < 2 \/ e[2].t # "Integer" THEN InvalidPdu("TypeMismatch")
                    ELSE IF stat.res # "Ok" THEN stat
                    ELSE walk(k + 1, <<[index |-> e[1].n[1], status |-> stat.val]>>, list)
               ELSE IF resp.kind = "Unknown" /\ Len(str_trim(resp.st)) > 0
               THEN IF pending = <<>> THEN InvalidPdu("TypeMismatch")
                    ELSE IF hex.res # "Ok" THEN hex
                    ELSE IF pdu.res # "Ok" THEN pdu
                    ELSE walk(k + 1, pending,
                              Append(list, [index |-> pending[1].index, status |-> pending[1].status,
                                            raw_pdu |-> hex.val, pdu |-> pdu.val]))
               ELSE walk(k + 1, pending, list)
    IN IF ~is_ok(pkt.status) THEN InvalidPdu("AtError") ELSE walk(1, <<>>, <<>>)

(* cmd/sms.rs 178-213: the closure applied to the packet.  pending is cur  *)
(* (<<>> for None), list is ret; an error or a panic ends the walk: `?` at *)
(* lines 179, 186-193 and 198-200, assert_eq! at line 185.                 *)
list_sms_pdu(pkt) ==
    LET RECURSIVE walk(_, _, _)
        walk(k, pending, list) ==
            LET resp == pkt.responses[k]
                e == resp.value.e
                stat == MessageStatus_from_integer(e[2].n[1])
                hex == HexData_decode(str_trim(resp.st))
                pdu == DeliverPdu_try_from(hex.val)
            IN IF k > Len(pkt.responses) THEN Ok(list)
               ELSE IF resp.kind = "InformationResponse"
               THEN IF resp.name # "+CMGL" THEN Panicked
                    ELSE IF resp.value.t # "Array" THEN InvalidPdu("TypeMismatch")
                    ELSE IF Len(e) < 1 \/ e[1].t # "Integer" THEN InvalidPdu("TypeMismatch")
                    ELSE IF Len(e) < 2 \/ e[2].t # "Integer" THEN InvalidPdu("TypeMismatch")
                    ELSE IF stat.res # "Ok" THEN stat
                    ELSE walk(k + 1, <<[index |-> e[1].n[1], status |-> stat.val]>>, list)
               ELSE IF resp.kind = "Unknown" /\ Len(str_trim(resp.st)) > 0
               THEN IF pending = <<>> THEN InvalidPdu("TypeMismatch")
                    ELSE IF hex.res # "Ok" THEN hex
                    ELSE IF pdu.res # "Ok" THEN pdu
                    ELSE walk(k + 1, <<>>,
                              Append(list, [index |-> pending[1].index, status |-> pending[1].status,
                                            raw_pdu |-> hex.val, pdu |-> pdu.val]))
               ELSE walk(k + 1, pending, list)
    IN IF ~is_ok(pkt.status) THEN InvalidPdu("AtError") ELSE walk(1, <<>>, <<>>)

(* The lines a listing is made of: +CMGL: <index>,<stat>,,<length> with    *)
(* stat in and out of range, +CMGL with a single number, the PDU lines of  *)
(* two SMS-DELIVER in hex, a PDU cut short, a line that is not hex and a   *)
(* line of white space.                                                    *)
SmsLines ==
    LET cmgl(value) == [kind |-> "InformationResponse", name |-> "+CMGL", value |-> value, st |-> <<>>]
        text(st) == [kind |-> "Unknown", name |-> "text", value |-> AtValue("Empty", <<>>), st |-> st]
        int(n) == AtValue("Integer", <<n>>)
        listing(index, stat) == AtValue("Array", <<int(index), int(stat), AtValue("Empty", <<>>), int(24)>>)
        deliver(ud) == <<0, 4, 2, 145, 153, 0, 0, 98, 1, 3, 33, 67, 101, 0, Len(ud)>> \o ud
    IN { cmgl(listing(1, 1)), cmgl(listing(2, 0)), cmgl(listing(3, 7)), cmgl(int(5)),
         text(HexData_fmt(deliver(<<>>))), text(<<32>> \o HexData_fmt(deliver(<<232, 50, 155, 253, 6>>))),
         text(<<48, 48>>), text(<<79, 75, 63>>), text(<<32, 9>>) }

SmsInit ==
    /\ EngineInit
    /\ call = "list_sms_pdu" /\ ret = <<>>
    /\ arg \in { [status |-> [kind |-> "ResultCode", name |-> s], responses |-> r] :
                   s \in {"Ok", "Error"},
                   r \in UNION { [1 .. n -> SmsLines] : n \in 0 .. MaxList } }

SpecSms ==
    SmsInit /\ [][/\ call = "list_sms_pdu"
                  /\ ret' = <<list_sms_pdu(arg)>>
                  /\ call' = "done"
                  /\ UNCHANGED <<arg, engineVars>>]_vars

(* C21: list_sms_pdu fails with AtError on a packet whose status is not Ok *)
(* whatever its lines are.  Otherwise, when it returns a list, the list    *)
(* has one record for each non-empty Unknown line, in the order of the     *)
(* lines, and each line has a pending +CMGL line: the last +CMGL line      *)
(* before it, with no non-empty Unknown line in between.  The record has   *)
(* the index and the status of that +CMGL line and the octets that the     *)
(* Unknown line, trimmed, is the hex form of, parsed as an SMS-DELIVER.  A *)
(* non-empty Unknown line with no pending +CMGL line makes it fail.        *)
C21_ListPairs ==
    (call = "done") =>
       LET lines == arg.responses
           pdus == { k \in DOMAIN lines : lines[k].kind = "Unknown" /\ str_trim(lines[k].st) # <<>> }
           pending(j) == { c \in 1 .. j - 1 : /\ lines[c].kind = "InformationResponse"
                                             /\ lines[c].name = "+CMGL"
                                             /\ \A u \in pdus : ~(c < u /\ u < j) }
           nth(j) == Cardinality({ u \in pdus : u <= j })
           names == <<"ReceivedUnread", "ReceivedRead", "StoredUnsent", "StoredSent", "All">>
       IN IF ~is_ok(arg.status) THEN ret[1] = [res |-> "Err", val |-> "AtError"]
          ELSE /\ (\E j \in pdus : pending(j) = {}) => ret[1].res # "Ok"
               /\ ret[1].res = "Ok" =>
                     /\ Len(ret[1].val) = Cardinality(pdus)
                     /\ \A j \in pdus :
                           LET c == CHOOSE c \in pending(j) : \A d \in pending(j) : d <= c
                               sms == ret[1].val[nth(j)]
                           IN /\ sms.index = lines[c].value.e[1].n[1]
                              /\ sms.status = names[lines[c].value.e[2].n[1] + 1]
                              /\ HexData_fmt(sms.raw_pdu) = str_trim(lines[j].st)
                              /\ sms.pdu = DeliverPdu_try_from(sms.raw_pdu).val

\* C21 witness: a listing of two messages returned as two records, with the two indexes and the two PDUs
C21_Witness ==
    /\ call = "done"
    /\ ret[1].res = "Ok" /\ Len(ret[1].val) = 2
    /\ ret[1].val[1].index # ret[1].val[2].index
    /\ ret[1].val[1].raw_pdu # ret[1].val[2].raw_pdu

====
